---- MODULE Spec2Model ----
(***************************************************************************)
(* Verification model of the MAP quadrant report: the build-time slicing   *)
(* and deduplication script, the derivation engine (dataTransforms), the   *)
(* norms lookup, the table rendering and the record filter, the quadrant    *)
(* classification, the grouping of the table, the selection view with its  *)
(* options, and the report generation of the app.                          *)
(*                                                                         *)
(* Numbers are integers in hundredths (3.26 is 326, 243 is 24300), so that *)
(* the arithmetic and the rounding of the source can be computed exactly.  *)
(***************************************************************************)
EXTENDS Integers, Naturals, Sequences, FiniteSets, TLC

VARIABLES
    csvRows,    \* build script: the rows parsed from the input CSV
    slices,     \* build script: slice key <<term, district, school>> -> rows written
    bpc,        \* build script: "read" | "build" | "done"
    drow,       \* derivation: the raw row handed to processData
    dperiod,    \* derivation: the growth period prefix
    dprior,     \* derivation: priorLookup (NoLookup, or a map with 0..1 records)
    dseason,    \* derivation: startSeason argument
    processed,  \* derivation: the derived record, NoRecord before processData ran
    cells,      \* table: the rendered cells of the row, NoCells before rendering
    fdata,      \* filter: the records handed to filterData
    ffilters,   \* filter: the criteria object
    fresult,    \* filter: the filtered records
    fpc,        \* filter: "input" | "filtered"
    ltermname,  \* term labels: the term name handed to getTermLabels
    lperiod,    \* term labels: the growth period handed to getTermLabels
    labels,     \* term labels: the label set returned, NoLabels before the call
    nsubject,   \* norms lookup: subject argument
    nseason,    \* norms lookup: season argument
    ngrade,     \* norms lookup: grade argument
    nrit,       \* norms lookup: rit argument
    npct,       \* norms lookup: the result, NotLookedUp before the call
    crows,      \* chart: the raw rows of the report
    cdata,      \* chart: the derived records (processData)
    celigible,  \* chart: the records getChartEligibleStudents returns
    cpc,        \* chart: "rows" | "derived" | "chart"
    view,       \* App: 'selection' | 'report'
    reportData, \* App: the derived records of the report
    reportFilters,  \* App: the report-level filters
    dataLoading,    \* App: a generation is running
    dataError,  \* App: the error shown to the user, NoError when null
    metadata,   \* App: the index of the slices
    selection,  \* App: the selection of the user
    gpc,        \* handler: "idle" | "primary" | "prior" | "done" | "failed"
    files,      \* handler: filesToLoad
    outcomes,   \* network: what the server did with each primary request
    primary,    \* handler: the promises of the primary files
    settled,    \* network: the order in which the primary promises settled
    priorFiles, \* handler: priorFilesToLoad
    priorOutcomes,  \* network: what the server did with each prior-term request
    prior,      \* handler: the promises of the prior-term files
    priorSettled,   \* network: the order in which the prior-term promises settled
    rawData,    \* handler: responses.flat()
    priorLookup,    \* handler: priorLookup, handed to processData
    atStart,    \* reportData and reportFilters when the generation started
    errorsShown,    \* number of setDataError(message) calls of the generation
    requests,   \* number of fetch calls of the generation
    gens,       \* number of generations started
    qachievement,   \* quadrant: the achievement percentile handed to getQuadrant
    qgrowth,    \* quadrant: the growth percentile handed to getQuadrant
    quadrant,   \* quadrant: the quadrant key returned, NoQuadrant before the call
    gsubject, \* start grade: the subject of the row
    gseason, \* start grade: the start season of the period
    ggrade, \* start grade: the grade of the row (the current grade)
    grit, \* start grade: the start-term score of the record
    gstart, \* start grade: the grade deriveStartGrade returned, NoGrade before the call
    gpct,\* start grade: the percentile looked up at the start grade
    grecords, \* grouping: the records handed to groupBySubject
    groups,\* grouping: the groups returned, NoGroups before the call
    oterm, \* options: the term of the exported rows
    orows, \* options: the rows of the term's schools in the CSV
    oindex, \* options: school -> entry of the index, NoIndex before the build
    oschool, \* options: the value of the school select
    ooffered \* options: the growth periods offered, NotOffered before

buildVars  == <<csvRows, slices, bpc>>
deriveVars == <<drow, dperiod, dprior, dseason, processed, cells>>
filterVars == <<fdata, ffilters, fresult, fpc>>
labelVars  == <<ltermname, lperiod, labels>>
normVars   == <<nsubject, nseason, ngrade, nrit, npct>>
chartVars  == <<crows, cdata, celigible, cpc>>
appVars    == <<view, reportData, reportFilters, dataLoading, dataError, metadata,
               selection, gpc, files, outcomes, primary, settled, priorFiles,
               priorOutcomes, prior, priorSettled, rawData, priorLookup,
               atStart, errorsShown, requests, gens>>
quadVars   == <<qachievement, qgrowth, quadrant>>
gradeVars == <<gsubject, gseason, ggrade, grit, gstart, gpct>>
groupVars == <<grecords, groups>>
optionVars == <<oterm, orows, oindex, oschool, ooffered>>
vars == <<csvRows, slices, bpc, drow, dperiod, dprior, dseason, processed, cells,
          fdata, ffilters, fresult, fpc, ltermname, lperiod, labels,
          nsubject, nseason, ngrade, nrit, npct, crows, cdata, celigible, cpc,
          view, reportData, reportFilters, dataLoading, dataError, metadata,
          selection, gpc, files, outcomes, primary, settled, priorFiles,
          priorOutcomes, prior, priorSettled, rawData, priorLookup,
          atStart, errorsShown, requests, gens,
          qachievement, qgrowth, quadrant,
          gsubject, gseason, ggrade, grit, gstart, gpct,
          grecords, groups,
          oterm, orows, oindex, oschool, ooffered>>

(***************************************************************************)
(* JavaScript values.                                                      *)
(***************************************************************************)
\* null / undefined
Null == -900000
\* the empty string '' of a CSV cell
EmptyStr == -900001
\* a CSV cell holding text that is no number ('abc')
BadText == -900002
\* the result of parseFloat on text that is no number
NaN == -900003
\* parseFloat(v): the number a cell's text denotes, NaN for '' / null / text
parseFloat(v) == IF v \in {EmptyStr, BadText, Null, NaN} THEN NaN ELSE v

\* JavaScript truthiness of a number-or-null value
Falsy(x) == x \in {NaN, Null, EmptyStr, 0}

\* x || d
OrElse(x, d) == IF Falsy(x) THEN d ELSE x

\* Math.round: nearest whole number, halves towards +infinity
MathRound(x) == ((x + 50) \div 100) * 100

(***************************************************************************)
(* Build script: deduplication per slice.                                  *)
(***************************************************************************)
\* bound: number of rows of the input CSV
MaxRows == 2

Terms     == {"Winter 2025-2026", "Winter 2024-2025"}
Districts == {"Alpha"}
Schools   == {"", "Alpha Austin", "Alpha Miami"}
Students  == {"001-0571", "001-2379"}
BuildSubjects == {"Math K-12"}
SEValues  == {EmptyStr, 0, 326}
\* test dates as ordinals of their ISO text: '' < '2026-01-28' < '2026-02-03'
DateValues == {1, 2}
RITValues == {20600, 21100}

CsvRowSet ==
    [termname : Terms, districtname : Districts, schoolname : Schools,
     studentid : Students, subject : BuildSubjects,
     growthmeasureyn : {"true", ""},
     teststandarderror : SEValues, teststartdate : DateValues,
     testritscore : RITValues]

\* the sentinel the reduction gives a missing standard error
MissingSE == 999 * 100

\* `${row.studentid}|${row.subject}`
GroupKey(row) == <<row.studentid, row.subject>>

\* distinct values of f over a sequence, in order of first appearance
\* (the insertion order of a JavaScript object's keys)
RECURSIVE KeysInOrder(_, _)
KeysInOrder(keysOf, n) ==
    IF n = 0 THEN <<>>
    ELSE LET before == KeysInOrder(keysOf, n - 1)
         IN IF \E i \in 1..Len(before) : before[i] = keysOf[n]
            THEN before ELSE Append(before, keysOf[n])

\* the reducer of group.reduce: curr or best
PickBetter(best, curr) ==
    LET currSE == OrElse(parseFloat(curr.teststandarderror), MissingSE)
        bestSE == OrElse(parseFloat(best.teststandarderror), MissingSE)
        currDate == curr.teststartdate
        bestDate == best.teststartdate
        currScore == OrElse(parseFloat(curr.testritscore), 0)
        bestScore == OrElse(parseFloat(best.testritscore), 0)
    IN  IF currSE < bestSE THEN curr
        ELSE IF currSE > bestSE THEN best
        ELSE IF currDate > bestDate THEN curr
        ELSE IF currDate < bestDate THEN best
        ELSE IF currScore > bestScore THEN curr ELSE best

\* group.reduce(reducer) without initial value: starts from group[1]
RECURSIVE ReduceGroup(_, _)
ReduceGroup(group, n) ==
    IF n = 1 THEN group[1]
    ELSE PickBetter(ReduceGroup(group, n - 1), group[n])

IsFlagged(r) == r.growthmeasureyn = "true"

deduplicateTermData(rows) ==
    LET hasGrowthMeasure == \E i \in 1..Len(rows) : IsFlagged(rows[i])
    IN  IF hasGrowthMeasure
        THEN SelectSeq(rows, IsFlagged)
        ELSE LET keysOf == [i \in 1..Len(rows) |-> GroupKey(rows[i])]
                 keys == KeysInOrder(keysOf, Len(rows))
                 GroupOf(k) == SelectSeq(rows, LAMBDA r : GroupKey(r) = k)
             IN  [j \in 1..Len(keys) |->
                     ReduceGroup(GroupOf(keys[j]), Len(GroupOf(keys[j])))]

\* the reducer of deduplicateData: highest RIT wins
PickHigherRIT(best, curr) ==
    LET currScore == OrElse(parseFloat(curr.testritscore), 0)
        bestScore == OrElse(parseFloat(best.testritscore), 0)
    IN  IF currScore > bestScore THEN curr ELSE best

RECURSIVE ReduceByRIT(_, _)
ReduceByRIT(group, n) ==
    IF n = 1 THEN group[1]
    ELSE PickHigherRIT(ReduceByRIT(group, n - 1), group[n])

\* the rows deduplicateData keeps of one term
DedupOneTerm(termRows) ==
    IF \E i \in 1..Len(termRows) : IsFlagged(termRows[i])
    THEN SelectSeq(termRows, IsFlagged)
    ELSE LET keysOf == [i \in 1..Len(termRows) |-> GroupKey(termRows[i])]
             keys == KeysInOrder(keysOf, Len(termRows))
             GroupOf(k) == SelectSeq(termRows, LAMBDA r : GroupKey(r) = k)
         IN  [j \in 1..Len(keys) |->
                 ReduceByRIT(GroupOf(keys[j]), Len(GroupOf(keys[j])))]

RECURSIVE ConcatTerms(_, _, _)
ConcatTerms(rows, terms, n) ==
    IF n = 0 THEN <<>>
    ELSE ConcatTerms(rows, terms, n - 1)
            \o DedupOneTerm(SelectSeq(rows, LAMBDA r : r.termname = terms[n]))

\* deduplicateData (dataTransforms.js): per term, in order of first appearance
deduplicateData(rows) ==
    LET termOf == [i \in 1..Len(rows) |-> rows[i].termname]
        terms == KeysInOrder(termOf, Len(rows))
    IN  ConcatTerms(rows, terms, Len(terms))

\* main: the rows that enter the hierarchy (term, district and school present)
HierarchyRows(rows) ==
    SelectSeq(rows, LAMBDA r : r.termname # "" /\ r.districtname # "" /\ r.schoolname # "")

SliceKey(row) == <<row.termname, row.districtname, row.schoolname>>

\* hierarchy[term][district][school]
SchoolRows(rows, key) == SelectSeq(HierarchyRows(rows), LAMBDA r : SliceKey(r) = key)

SliceKeys(rows) == {SliceKey(HierarchyRows(rows)[i]) : i \in 1..Len(HierarchyRows(rows))}

AllSliceKeys == Terms \X Districts \X Schools

\* a slice that is not written yet (a written slice holds at least one row)
NotWritten == <<>>

Written == {k \in AllSliceKeys : slices[k] # NotWritten}

BuildInit ==
    /\ csvRows = <<>>
    /\ slices = [k \in AllSliceKeys |-> NotWritten]
    /\ bpc = "read"

\* one more row of the CSV is parsed
ReadRow ==
    /\ bpc = "read"
    /\ Len(csvRows) < MaxRows
    /\ \E r \in CsvRowSet : csvRows' = Append(csvRows, r)
    /\ UNCHANGED <<slices, bpc>>
    /\ UNCHANGED <<deriveVars, filterVars, labelVars, normVars, chartVars, appVars, quadVars, gradeVars, groupVars, optionVars>>

\* the CSV is read whole
EndOfCsv ==
    /\ bpc = "read"
    /\ bpc' = "build"
    /\ UNCHANGED <<csvRows, slices>>
    /\ UNCHANGED <<deriveVars, filterVars, labelVars, normVars, chartVars, appVars, quadVars, gradeVars, groupVars, optionVars>>

\* one iteration of the term/district/school loops: the slice file is written
BuildSlice ==
    /\ bpc = "build"
    /\ \E key \in SliceKeys(csvRows) \ Written :
          slices' = [slices EXCEPT ![key] = deduplicateTermData(SchoolRows(csvRows, key))]
    /\ UNCHANGED <<csvRows, bpc>>
    /\ UNCHANGED <<deriveVars, filterVars, labelVars, normVars, chartVars, appVars, quadVars, gradeVars, groupVars, optionVars>>

\* every slice is written
BuildDone ==
    /\ bpc = "build"
    /\ SliceKeys(csvRows) \subseteq Written
    /\ bpc' = "done"
    /\ UNCHANGED <<csvRows, slices>>
    /\ UNCHANGED <<deriveVars, filterVars, labelVars, normVars, chartVars, appVars, quadVars, gradeVars, groupVars, optionVars>>

BuildIdle == csvRows = <<>> /\ slices = [k \in AllSliceKeys |-> NotWritten] /\ bpc = "idle"

(***************************************************************************)
(* Norms lookup (normsLookup.js).                                          *)
(***************************************************************************)
\* SUBJECT_MAP[subject], "" when the subject is unmapped
SUBJECT_MAP(subject) ==
    CASE subject \in {"Mathematics", "Math K-12", "Math 6+", "Math"} -> "Math"
      [] subject = "Reading" -> "Read"
      [] subject \in {"Language Usage", "Language"} -> "Lang"
      [] subject \in {"Science - General Science", "Science K-12",
                      "General Science", "Science"} -> "Scie"
      [] OTHER -> ""

\* SEASON_MAP[season], "" when the season is unmapped
SEASON_MAP(season) ==
    CASE season = "Fall" -> "Fal"
      [] season = "Winter" -> "Win"
      [] season = "Spring" -> "Spr"
      [] OTHER -> ""

\* no key: buildKey returned null
NoKey == <<>>

buildKey(subject, season, grade) ==
    LET subjectCode == SUBJECT_MAP(subject)
        seasonCode == SEASON_MAP(season)
    IN  IF subjectCode = "" \/ seasonCode = "" THEN NoKey
        ELSE <<subjectCode, seasonCode, grade>>

\* the grades the norms tables cover
NormGrades == {"K", "1", "2", "3", "4", "5", "6", "7", "8", "9", "10", "11", "12"}

\* NORMS_2025[key]: 99 non-decreasing RIT thresholds (index 1 is percentile 1),
\* <<>> when the table has no such key
\* (the Reading tables open with a repeated threshold and rise in steps of 3)
NORMS_2025(key) ==
    IF key # NoKey /\ key[3] \in NormGrades
    THEN IF key[1] = "Read"
         THEN [i \in 1..99 |-> (160 + 3 * ((i - 1) \div 3)) * 100]
         ELSE [i \in 1..99 |-> (180 + ((2 * i) \div 3)) * 100]
    ELSE <<>>

\* the binary search: the highest index (0-based) with ritArray[index] <= ritRounded
RECURSIVE BinarySearch(_, _, _, _)
BinarySearch(ritArray, ritRounded, lo, hi) ==
    IF lo < hi
    THEN LET mid == (lo + hi + 1) \div 2
         IN  IF ritArray[mid + 1] <= ritRounded
             THEN BinarySearch(ritArray, ritRounded, mid, hi)
             ELSE BinarySearch(ritArray, ritRounded, lo, mid - 1)
    ELSE lo

\* mutant of lookupPercentile: the percentiles are counted from the top of the table
lookupPercentileCountingDown(subject, season, grade, rit) ==
    LET key == buildKey(subject, season, grade)
        ritArray == NORMS_2025(key)
        ritRounded == IF rit = Null THEN 0 ELSE MathRound(rit)
    IN  IF key = NoKey THEN Null
        ELSE IF ritArray = <<>> THEN Null
        ELSE IF ritRounded <= ritArray[1] THEN 99 * 100
        ELSE IF ritRounded >= ritArray[99] THEN 1 * 100
        ELSE LET lo == BinarySearch(ritArray, ritRounded, 0, 98)
                 up == /\ lo < 98
                       /\ ritArray[lo + 1] < ritRounded
                       /\ ritArray[lo + 2] - ritRounded <= ritRounded - ritArray[lo + 1]
             IN  (100 - ((IF up THEN lo + 1 ELSE lo) + 1)) * 100

\* mutant of lookupPercentile: between two entries the farther one is picked
lookupPercentileFartherNeighbour(subject, season, grade, rit) ==
    LET key == buildKey(subject, season, grade)
        ritArray == NORMS_2025(key)
        ritRounded == IF rit = Null THEN 0 ELSE MathRound(rit)
    IN  IF key = NoKey THEN Null
        ELSE IF ritArray = <<>> THEN Null
        ELSE IF ritRounded <= ritArray[1] THEN 1 * 100
        ELSE IF ritRounded >= ritArray[99] THEN 99 * 100
        ELSE LET lo == BinarySearch(ritArray, ritRounded, 0, 98)
                 up == /\ lo < 98
                       /\ ritArray[lo + 1] < ritRounded
                       /\ ritArray[lo + 2] - ritRounded >= ritRounded - ritArray[lo + 1]
             IN  ((IF up THEN lo + 1 ELSE lo) + 1) * 100

\* mutant of lookupPercentile: the floor method without the nearest neighbour
lookupPercentileFloorOnly(subject, season, grade, rit) ==
    LET key == buildKey(subject, season, grade)
        ritArray == NORMS_2025(key)
        ritRounded == IF rit = Null THEN 0 ELSE MathRound(rit)
    IN  IF key = NoKey THEN Null
        ELSE IF ritArray = <<>> THEN Null
        ELSE IF ritRounded <= ritArray[1] THEN 1 * 100
        ELSE IF ritRounded >= ritArray[99] THEN 99 * 100
        ELSE LET lo == BinarySearch(ritArray, ritRounded, 0, 98)
                 up == FALSE
             IN  ((IF up THEN lo + 1 ELSE lo) + 1) * 100

\* percentile (1..99, in hundredths) or Null
lookupPercentile(subject, season, grade, rit) ==
    LET key == buildKey(subject, season, grade)
        ritArray == NORMS_2025(key)
        \* Math.round(null) is 0
        ritRounded == IF rit = Null THEN 0 ELSE MathRound(rit)
    IN  IF key = NoKey THEN Null
        ELSE IF ritArray = <<>> THEN Null
        ELSE IF ritRounded <= ritArray[1] THEN 1 * 100
        ELSE IF ritRounded >= ritArray[99] THEN 99 * 100
        ELSE LET lo == BinarySearch(ritArray, ritRounded, 0, 98)
                 up == /\ lo < 98
                       /\ ritArray[lo + 1] < ritRounded
                       /\ ritArray[lo + 2] - ritRounded <= ritRounded - ritArray[lo + 1]
             IN  ((IF up THEN lo + 1 ELSE lo) + 1) * 100

(***************************************************************************)
(* Derivation engine (dataTransforms.js).                                  *)
(***************************************************************************)
GrowthPeriods == {"falltowinter", "falltospring", "wintertospring",
                  "falltofall", "wintertowinter", "springtospring"}

\* mutant of safeParseFloat: parseFloat(value) || 0
safeParseFloatOrZero(value) == OrElse(parseFloat(value), 0)

\* safeParseFloat: null for '' / null / undefined and for text that is no number
safeParseFloat(value) ==
    IF value = EmptyStr \/ value = Null THEN Null
    ELSE LET parsed == parseFloat(value)
         IN  IF parsed = NaN THEN Null ELSE parsed

\* parseInt(grade, 10), NaN for a grade that does not start with a digit
parseIntGrade(grade) ==
    CASE grade = "1" -> 1 [] grade = "2" -> 2 [] grade = "3" -> 3 [] grade = "4" -> 4
      [] grade = "5" -> 5 [] grade = "6" -> 6 [] grade = "7" -> 7 [] grade = "8" -> 8
      [] grade = "9" -> 9 [] grade = "10" -> 10 [] grade = "11" -> 11
      [] grade = "12" -> 12 [] grade = "0" -> 0
      [] OTHER -> NaN

\* String(num) for 0..12
GradeString(num) ==
    <<"0", "1", "2", "3", "4", "5", "6", "7", "8", "9", "10", "11", "12">>[num + 1]

deriveStartGrade(currentGrade) ==
    LET num == parseIntGrade(currentGrade)
    IN  IF num # NaN /\ num > 0 THEN GradeString(num - 1) ELSE currentGrade

\* x ?? d
Coalesce(x, d) == IF x = Null THEN d ELSE x

\* row[`${growthPeriod}${column}`]
GrowthColumn(row, growthPeriod, column) == row.growth[growthPeriod][column]

\* mutant of startRITOf: a missing observed growth counts as 0
startRITDefaultsToEndScore(hasGrowthData, testritscore, observedGrowth) ==
    IF testritscore # Null THEN testritscore - Coalesce(observedGrowth, 0) ELSE Null

\* start-term RIT: only with growth data, a score and an observed growth
startRITOf(hasGrowthData, testritscore, observedGrowth) ==
    IF hasGrowthData /\ testritscore # Null /\ observedGrowth # Null
    THEN testritscore - observedGrowth ELSE Null

\* projected RIT: only with growth data, a start-term RIT and a projected growth
projectedRITOf(hasGrowthData, startRIT, projectedGrowth) ==
    IF hasGrowthData /\ startRIT # Null /\ projectedGrowth # Null
    THEN startRIT + projectedGrowth ELSE Null

calculateDerivedValues(row, growthPeriod) ==
    LET testritscore == safeParseFloat(row.testritscore)
        teststandarderror == Coalesce(safeParseFloat(row.teststandarderror), 0)
        observedGrowth == safeParseFloat(GrowthColumn(row, growthPeriod, "observedgrowth"))
        projectedGrowth == safeParseFloat(GrowthColumn(row, growthPeriod, "projectedgrowth"))
        hasGrowthData == observedGrowth # Null \/ projectedGrowth # Null
        startRIT == startRITOf(hasGrowthData, testritscore, observedGrowth)
        projectedRIT == projectedRITOf(hasGrowthData, startRIT, projectedGrowth)
    IN  [studentid |-> row.studentid,
         subject |-> row.subject,
         grade |-> row.grade,
         hasGrowthData |-> hasGrowthData,
         fallRIT |-> IF startRIT # Null THEN MathRound(startRIT) ELSE Null,
         winterRIT |-> IF testritscore # Null THEN MathRound(testritscore) ELSE Null,
         winterPercentile |-> safeParseFloat(row.testpercentile),
         teststandarderror |-> teststandarderror,
         projectedRIT |-> IF projectedRIT # Null THEN MathRound(projectedRIT) ELSE Null,
         projectedGrowth |-> projectedGrowth,
         observedGrowth |-> observedGrowth,
         conditionalGrowthIndex |->
             safeParseFloat(GrowthColumn(row, growthPeriod, "conditionalgrowthindex")),
         conditionalGrowthPercentile |->
             safeParseFloat(GrowthColumn(row, growthPeriod, "conditionalgrowthpercentile")),
         \* fields processData may add; Null stands for a property that is not set
         startTermSE |-> Null,
         startTermPercentile |-> Null,
         startTermPercentileLow |-> Null,
         startTermPercentileHigh |-> Null]

\* priorTermLookup = null
NoLookup == [isNull |-> TRUE, rows |-> {}]

\* priorTermLookup[key], NoPrior when the map has no such key
NoPrior == <<>>
PriorData(priorTermLookup, key) ==
    LET hit == {r \in priorTermLookup.rows : <<r.studentid, r.subject>> = key}
    IN  IF hit = {} THEN NoPrior ELSE CHOOSE r \in hit : TRUE

\* mutant of YearOverYear: no period is taken as year-over-year
YearOverYearNone == {}

\* the periods processData takes as year-over-year
YearOverYear == {"wintertowinter", "falltofall", "springtospring"}

\* the body of processData's map callback
processRow(row, growthPeriod, priorTermLookup, startSeason) ==
    LET base == calculateDerivedValues(row, growthPeriod)
        hasLookup == ~priorTermLookup.isNull
        priorData == IF hasLookup
                     THEN PriorData(priorTermLookup, <<row.studentid, row.subject>>)
                     ELSE NoPrior
        withSE == IF hasLookup /\ base.hasGrowthData /\ priorData # NoPrior
                  THEN [base EXCEPT !.startTermSE = safeParseFloat(priorData.teststandarderror)]
                  ELSE base
        isYearOverYear == growthPeriod \in YearOverYear
        startRIT == withSE.fallRIT
        startGrade == deriveStartGrade(row.grade)
        normsPercentile == lookupPercentile(row.subject, startSeason, startGrade, startRIT)
        se == OrElse(withSE.startTermSE, 0)
    IN  IF isYearOverYear /\ withSE.hasGrowthData /\ withSE.fallRIT # Null /\ startSeason # ""
        THEN IF normsPercentile # Null
             THEN IF se > 0
                  THEN [withSE EXCEPT
                          !.startTermPercentile = normsPercentile,
                          !.startTermPercentileLow =
                              lookupPercentile(row.subject, startSeason, startGrade, startRIT - se),
                          !.startTermPercentileHigh =
                              lookupPercentile(row.subject, startSeason, startGrade, startRIT + se)]
                  ELSE [withSE EXCEPT !.startTermPercentile = normsPercentile]
             ELSE IF hasLookup /\ priorData # NoPrior
                  THEN [withSE EXCEPT
                          !.startTermPercentile = safeParseFloat(priorData.testpercentile)]
                  ELSE withSE
        ELSE IF hasLookup /\ withSE.hasGrowthData /\ priorData # NoPrior
             THEN [withSE EXCEPT
                     !.startTermPercentile = safeParseFloat(priorData.testpercentile)]
             ELSE withSE

\* processData: one derived record per row, in input order
processData(data, growthPeriod, priorTermLookup, startSeason) ==
    [i \in 1..Len(data) |-> processRow(data[i], growthPeriod, priorTermLookup, startSeason)]

(***************************************************************************)
(* Data table (DataTable.jsx): the cells of one student row.               *)
(***************************************************************************)
\* the em-dash cell
NoRange == <<>>

\* formatRITRange: <<low, mid, high>>, or the em-dash when there is no score
formatRITRange(rit, se) ==
    IF rit = Null THEN NoRange
    ELSE <<MathRound(rit - 2 * OrElse(se, 0)),
           MathRound(rit),
           MathRound(rit + 2 * OrElse(se, 0))>>

\* the "Growth Index" cell (13th cell of the row); Null is the em-dash
growthIndexCell(student) ==
    IF student.conditionalGrowthIndex # Null
    THEN student.conditionalGrowthIndex
    ELSE Null

\* the "Conditional Growth Index" cell (15th cell of the row)
conditionalGrowthIndexCell(student) == student.conditionalGrowthIndex

\* the <tr> of one student
renderRow(student) ==
    [startRitRange |-> formatRITRange(student.fallRIT, student.teststandarderror),
     endRitRange |-> formatRITRange(student.winterRIT, parseFloat(student.teststandarderror)),
     projectedRIT |-> student.projectedRIT,
     growthIndex |-> growthIndexCell(student),
     conditionalGrowthIndex |-> conditionalGrowthIndexCell(student)]

(***************************************************************************)
(* Derivation and rendering of one row.                                    *)
(***************************************************************************)
DeriveStudent == "001-0408"
DeriveSubjects == {"Math K-12", "Art"}
DeriveGrades == {"5", "PK"}
DeriveRIT == {EmptyStr, 24300}
DeriveSE == {EmptyStr, 326}
DerivePercentile == {EmptyStr, 9600}
DeriveObserved == {EmptyStr, BadText, 0, 600}
DeriveProjected == {EmptyStr, Null, 0, 700}
DeriveCGI == {EmptyStr, -17}
DeriveCGP == {EmptyStr, 4500}
DeriveSeasons == {"", "Winter"}

\* the growth columns of the periods that are not selected
OtherPeriodColumns ==
    [observedgrowth |-> 300, projectedgrowth |-> 400,
     conditionalgrowthindex |-> 55, conditionalgrowthpercentile |-> 6000]

\* the prior-term records a lookup may hold for the student
PriorRecords(subject) ==
    {[studentid |-> DeriveStudent, subject |-> subject,
      teststandarderror |-> 300, testpercentile |-> 9700],
     [studentid |-> DeriveStudent, subject |-> subject,
      teststandarderror |-> EmptyStr, testpercentile |-> EmptyStr]}

PriorLookups(subject) ==
    {NoLookup, [isNull |-> FALSE, rows |-> {}]}
        \cup {[isNull |-> FALSE, rows |-> {r}] : r \in PriorRecords(subject)}

NoRecord == <<>>
NoCells == <<>>

DeriveInit ==
    /\ \E p \in GrowthPeriods, subject \in DeriveSubjects, grade \in DeriveGrades,
          rit \in DeriveRIT, se \in DeriveSE, pct \in DerivePercentile,
          og \in DeriveObserved, pg \in DeriveProjected,
          cgi \in DeriveCGI, cgp \in DeriveCGP :
          /\ dperiod = p
          /\ drow = [studentid |-> DeriveStudent, subject |-> subject, grade |-> grade,
                     testritscore |-> rit, teststandarderror |-> se,
                     testpercentile |-> pct,
                     growth |-> [q \in GrowthPeriods |->
                                   IF q = p
                                   THEN [observedgrowth |-> og, projectedgrowth |-> pg,
                                         conditionalgrowthindex |-> cgi,
                                         conditionalgrowthpercentile |-> cgp]
                                   ELSE OtherPeriodColumns]]
          /\ dprior \in PriorLookups(subject)
    /\ dseason \in DeriveSeasons
    /\ processed = NoRecord
    /\ cells = NoCells

\* App calls processData on the loaded rows
ProcessData ==
    /\ processed = NoRecord
    /\ processed' = processData(<<drow>>, dperiod, dprior, dseason)[1]
    /\ UNCHANGED <<drow, dperiod, dprior, dseason, cells>>
    /\ UNCHANGED <<buildVars, filterVars, labelVars, normVars, chartVars, appVars, quadVars, gradeVars, groupVars, optionVars>>

\* DataTable renders the row of the derived record
RenderRow ==
    /\ processed # NoRecord
    /\ cells = NoCells
    /\ cells' = renderRow(processed)
    /\ UNCHANGED <<drow, dperiod, dprior, dseason, processed>>
    /\ UNCHANGED <<buildVars, filterVars, labelVars, normVars, chartVars, appVars, quadVars, gradeVars, groupVars, optionVars>>

DeriveIdle ==
    /\ drow = NoRecord /\ dperiod = "" /\ dprior = NoLookup /\ dseason = ""
    /\ processed = NoRecord /\ cells = NoCells

(***************************************************************************)
(* Record filter (filterData).                                             *)
(***************************************************************************)
\* bound: number of records handed to filterData
MaxData == 2
\* bound: number of criteria of the filter object that are set at once
MaxActive == 3

\* a criterion that is not set (undefined)
Undefined == "undefined"
UndefinedArray == [kind |-> "undefined", items |-> <<>>]
NullArray == [kind |-> "null", items |-> <<>>]
Array(items) == [kind |-> "array", items |-> items]

includes(items, v) == \E i \in 1..Len(items) : items[i] = v

\* mutant of filterRow: an empty subjects / genders / ethnicities array filters nothing
filterRowEmptyMeansAll(row, filters) ==
    /\ ~(filters.termname \notin {Undefined, ""} /\ row.termname # filters.termname)
    /\ ~(filters.schoolname \notin {Undefined, ""} /\ row.schoolname # filters.schoolname)
    /\ ~(filters.districtname \notin {Undefined, ""}
            /\ row.districtname # filters.districtname)
    /\ ~(filters.grades.kind = "array" /\ Len(filters.grades.items) > 0
            /\ ~includes(filters.grades.items, row.grade))
    /\ ~(filters.subjects.kind = "array" /\ Len(filters.subjects.items) > 0
            /\ ~includes(filters.subjects.items, row.subject))
    /\ ~(filters.genders.kind = "array" /\ Len(filters.genders.items) > 0
            /\ ~includes(filters.genders.items, row.studentgender))
    /\ ~(filters.ethnicities.kind = "array" /\ Len(filters.ethnicities.items) > 0
            /\ ~includes(filters.ethnicities.items, row.studentethnicgroup))

\* mutant of filterRow: an empty grades array excludes every record
filterRowEmptyGradesExclude(row, filters) ==
    /\ ~(filters.termname \notin {Undefined, ""} /\ row.termname # filters.termname)
    /\ ~(filters.schoolname \notin {Undefined, ""} /\ row.schoolname # filters.schoolname)
    /\ ~(filters.districtname \notin {Undefined, ""}
            /\ row.districtname # filters.districtname)
    /\ ~(filters.grades.kind = "array"
            /\ ~includes(filters.grades.items, row.grade))
    /\ ~(filters.subjects.kind = "array"
            /\ (Len(filters.subjects.items) = 0
                  \/ ~includes(filters.subjects.items, row.subject)))
    /\ ~(filters.genders.kind = "array"
            /\ (Len(filters.genders.items) = 0
                  \/ ~includes(filters.genders.items, row.studentgender)))
    /\ ~(filters.ethnicities.kind = "array"
            /\ (Len(filters.ethnicities.items) = 0
                  \/ ~includes(filters.ethnicities.items, row.studentethnicgroup)))

\* the predicate of data.filter
filterRow(row, filters) ==
    /\ ~(filters.termname \notin {Undefined, ""} /\ row.termname # filters.termname)
    /\ ~(filters.schoolname \notin {Undefined, ""} /\ row.schoolname # filters.schoolname)
    /\ ~(filters.districtname \notin {Undefined, ""}
            /\ row.districtname # filters.districtname)
    /\ ~(filters.grades.kind = "array" /\ Len(filters.grades.items) > 0
            /\ ~includes(filters.grades.items, row.grade))
    /\ ~(filters.subjects.kind = "array"
            /\ (Len(filters.subjects.items) = 0
                  \/ ~includes(filters.subjects.items, row.subject)))
    /\ ~(filters.genders.kind = "array"
            /\ (Len(filters.genders.items) = 0
                  \/ ~includes(filters.genders.items, row.studentgender)))
    /\ ~(filters.ethnicities.kind = "array"
            /\ (Len(filters.ethnicities.items) = 0
                  \/ ~includes(filters.ethnicities.items, row.studentethnicgroup)))

filterData(data, filters) == SelectSeq(data, LAMBDA row : filterRow(row, filters))

FilterRecords ==
    {[termname |-> "Winter 2025-2026", schoolname |-> "Alpha Austin",
      districtname |-> "Alpha", grade |-> "4", subject |-> "Math K-12",
      studentgender |-> "M", studentethnicgroup |-> "Asian"],
     [termname |-> "Winter 2024-2025", schoolname |-> "Alpha Miami",
      districtname |-> "Beta", grade |-> "5", subject |-> "Reading",
      studentgender |-> "F", studentethnicgroup |-> "White"],
     [termname |-> "Winter 2025-2026", schoolname |-> "Alpha Miami",
      districtname |-> "Alpha", grade |-> "5", subject |-> "Math K-12",
      studentgender |-> "F", studentethnicgroup |-> "Asian"]}

RECURSIVE SeqsUpTo(_, _)
SeqsUpTo(S, n) ==
    IF n = 0 THEN {<<>>}
    ELSE LET shorter == SeqsUpTo(S, n - 1)
         IN  shorter \cup {Append(q, x) : q \in {t \in shorter : Len(t) = n - 1}, x \in S}

ScalarCriteria == {"termname", "schoolname", "districtname"}
ArrayCriteria == {"grades", "subjects", "genders", "ethnicities"}

FilterObjects ==
    [termname : {Undefined, "", "Winter 2025-2026"},
     schoolname : {Undefined, "", "Alpha Austin"},
     districtname : {Undefined, "", "Alpha"},
     grades : {UndefinedArray, Array(<<>>), Array(<<"4">>)},
     subjects : {UndefinedArray, NullArray, Array(<<>>), Array(<<"Math K-12">>)},
     genders : {UndefinedArray, NullArray, Array(<<>>), Array(<<"F">>)},
     ethnicities : {UndefinedArray, NullArray, Array(<<>>), Array(<<"Asian", "White">>)}]

\* the criteria of a filter object that are set
ActiveCriteria(filters) ==
    {c \in ScalarCriteria : filters[c] # Undefined}
        \cup {c \in ArrayCriteria : filters[c].kind # "undefined"}

FilterInit ==
    /\ fdata \in SeqsUpTo(FilterRecords, MaxData)
    /\ ffilters \in {f \in FilterObjects : Cardinality(ActiveCriteria(f)) <= MaxActive}
    /\ fresult = <<>>
    /\ fpc = "input"

\* filterData is applied to the records
Filter ==
    /\ fpc = "input"
    /\ fresult' = filterData(fdata, ffilters)
    /\ fpc' = "filtered"
    /\ UNCHANGED <<fdata, ffilters>>
    /\ UNCHANGED <<buildVars, deriveVars, labelVars, normVars, chartVars, appVars, quadVars, gradeVars, groupVars, optionVars>>

FilterIdle ==
    /\ fdata = <<>> /\ ffilters = <<>> /\ fresult = <<>> /\ fpc = "idle"

(***************************************************************************)
(* Term and growth period resolver (termUtils.js).                         *)
(*                                                                         *)
(* A term name is the text `${word} ${y1}-${y2}`, kept as its three parts; *)
(* a label `${season} ${year}` is the pair <<season, year>>.               *)
(***************************************************************************)
\* termname is undefined / null
MissingTerm == [word |-> "", y1 |-> "", y2 |-> "", missing |-> TRUE]

TermText(word, y1, y2) == [word |-> word, y1 |-> y1, y2 |-> y2, missing |-> FALSE]

\* \d{4}: the year texts of four digits
FourDigits == {"2024", "2025", "2026"}

\* parseInt(text, 10) of a year text
parseIntYear(text) ==
    CASE text = "2024" -> 2024
      [] text = "2025" -> 2025
      [] text = "2026" -> 2026
      [] text = "25" -> 25
      [] OTHER -> NaN

\* mutant of parseTerm: any leading word is taken as the season
parseTermAnyWord(termname) ==
    IF termname.missing
       \/ termname.word = ""
       \/ termname.y1 \notin FourDigits
       \/ termname.y2 \notin FourDigits
    THEN [season |-> "", startYear |-> 0, endYear |-> 0]
    ELSE [season |-> termname.word,
          startYear |-> parseIntYear(termname.y1),
          endYear |-> parseIntYear(termname.y2)]

\* parseTerm: /^(Fall|Winter|Spring)\s+(\d{4})-(\d{4})$/
parseTerm(termname) ==
    IF termname.missing
       \/ termname.word \notin {"Fall", "Winter", "Spring"}
       \/ termname.y1 \notin FourDigits
       \/ termname.y2 \notin FourDigits
    THEN [season |-> "", startYear |-> 0, endYear |-> 0]
    ELSE [season |-> termname.word,
          startYear |-> parseIntYear(termname.y1),
          endYear |-> parseIntYear(termname.y2)]

\* season.substring(0, 2).toUpperCase()
UpperTwo(season) ==
    CASE season = "Summer" -> "SU"
      [] season = "fall" -> "FA"
      [] OTHER -> ""

getSeasonCode(season) ==
    CASE season = "Fall" -> "FA"
      [] season = "Winter" -> "WI"
      [] season = "Spring" -> "SP"
      [] OTHER -> UpperTwo(season)

\* the label set of an unparseable term name or a missing growth period
EmptyLabels ==
    [startLabel |-> "", endLabel |-> "", startCode |-> "", endCode |-> "",
     startSeason |-> "", endSeason |-> "", startYear |-> 0, endYear |-> 0]

\* mutant of switchOnPeriod: the start term of wintertospring is the Winter of
\* the first year of the span
switchOnSchoolYearStart(growthPeriod, season, startYear, endYear) ==
    CASE growthPeriod = "falltowinter" ->
            [startSeason |-> "Fall", startTermYear |-> startYear,
             endSeason |-> "Winter", endTermYear |-> endYear]
      [] growthPeriod = "falltospring" ->
            [startSeason |-> "Fall", startTermYear |-> startYear,
             endSeason |-> "Spring", endTermYear |-> endYear]
      [] growthPeriod = "wintertospring" ->
            [startSeason |-> "Winter", startTermYear |-> startYear,
             endSeason |-> "Spring", endTermYear |-> endYear]
      [] growthPeriod = "falltofall" ->
            [startSeason |-> "Fall", startTermYear |-> startYear - 1,
             endSeason |-> "Fall", endTermYear |-> startYear]
      [] growthPeriod = "wintertowinter" ->
            [startSeason |-> "Winter", startTermYear |-> startYear,
             endSeason |-> "Winter", endTermYear |-> endYear]
      [] growthPeriod = "springtospring" ->
            [startSeason |-> "Spring", startTermYear |-> startYear,
             endSeason |-> "Spring", endTermYear |-> endYear]
      [] OTHER ->
            [startSeason |-> season, startTermYear |-> startYear,
             endSeason |-> season,
             endTermYear |-> IF season = "Fall" THEN startYear ELSE endYear]

\* the switch of getTermLabels: start and end term of the growth period
switchOnPeriod(growthPeriod, season, startYear, endYear) ==
    CASE growthPeriod = "falltowinter" ->
            [startSeason |-> "Fall", startTermYear |-> startYear,
             endSeason |-> "Winter", endTermYear |-> endYear]
      [] growthPeriod = "falltospring" ->
            [startSeason |-> "Fall", startTermYear |-> startYear,
             endSeason |-> "Spring", endTermYear |-> endYear]
      [] growthPeriod = "wintertospring" ->
            [startSeason |-> "Winter", startTermYear |-> endYear,
             endSeason |-> "Spring", endTermYear |-> endYear]
      [] growthPeriod = "falltofall" ->
            [startSeason |-> "Fall", startTermYear |-> startYear - 1,
             endSeason |-> "Fall", endTermYear |-> startYear]
      [] growthPeriod = "wintertowinter" ->
            [startSeason |-> "Winter", startTermYear |-> startYear,
             endSeason |-> "Winter", endTermYear |-> endYear]
      [] growthPeriod = "springtospring" ->
            [startSeason |-> "Spring", startTermYear |-> startYear,
             endSeason |-> "Spring", endTermYear |-> endYear]
      [] OTHER ->
            [startSeason |-> season, startTermYear |-> startYear,
             endSeason |-> season,
             endTermYear |-> IF season = "Fall" THEN startYear ELSE endYear]

getTermLabels(termname, growthPeriod) ==
    LET parsed == parseTerm(termname)
        t == switchOnPeriod(growthPeriod, parsed.season, parsed.startYear, parsed.endYear)
    IN  IF parsed.season = "" \/ growthPeriod = ""
        THEN EmptyLabels
        ELSE [startLabel |-> <<t.startSeason, t.startTermYear>>,
              endLabel |-> <<t.endSeason, t.endTermYear>>,
              startCode |-> <<getSeasonCode(t.startSeason), t.startTermYear>>,
              endCode |-> <<getSeasonCode(t.endSeason), t.endTermYear>>,
              startSeason |-> t.startSeason,
              endSeason |-> t.endSeason,
              startYear |-> t.startTermYear,
              endYear |-> t.endTermYear]

LabelWords == {"Fall", "Winter", "Spring", "Summer", "fall", ""}
LabelYears == FourDigits \cup {"25", ""}
LabelTerms ==
    {MissingTerm} \cup {TermText(w, y1, y2) : w \in LabelWords, y1 \in LabelYears, y2 \in LabelYears}
\* the six periods, no period, and a period the switch does not know
LabelPeriods == GrowthPeriods \cup {"", "springtofall"}

\* no label set yet
NoLabels == <<>>

LabelInit ==
    /\ ltermname \in LabelTerms
    /\ lperiod \in LabelPeriods
    /\ labels = NoLabels

\* a component asks for the labels of the selected term and growth period
GetTermLabels ==
    /\ labels = NoLabels
    /\ labels' = getTermLabels(ltermname, lperiod)
    /\ UNCHANGED <<ltermname, lperiod>>
    /\ UNCHANGED <<buildVars, deriveVars, filterVars, normVars, chartVars, appVars, quadVars, gradeVars, groupVars, optionVars>>

LabelIdle == ltermname = MissingTerm /\ lperiod = "" /\ labels = NoLabels

(***************************************************************************)
(* One call of the norms lookup.                                           *)
(***************************************************************************)
NormSubjects == {"Math K-12", "Reading", "Art"}
NormSeasons == {"Winter", "Summer", ""}
NormGradeArgs == {"4", "PK"}
\* RIT scores 155.0, 155.5, ... 262.0: below, inside and above every table
NormRits == {r \in 15500..26200 : r % 50 = 0}

\* no lookup yet
NotLookedUp == -900004

NormInit ==
    /\ nsubject \in NormSubjects
    /\ nseason \in NormSeasons
    /\ ngrade \in NormGradeArgs
    /\ nrit \in NormRits
    /\ npct = NotLookedUp

\* processData asks for the percentile of a start-term score
Lookup ==
    /\ npct = NotLookedUp
    /\ npct' = lookupPercentile(nsubject, nseason, ngrade, nrit)
    /\ UNCHANGED <<nsubject, nseason, ngrade, nrit>>
    /\ UNCHANGED <<buildVars, deriveVars, filterVars, labelVars, chartVars, appVars, quadVars, gradeVars, groupVars, optionVars>>

NormIdle ==
    /\ nsubject = "" /\ nseason = "" /\ ngrade = "" /\ nrit = Null /\ npct = NotLookedUp

(***************************************************************************)
(* Chart eligibility (getChartEligibleStudents).                           *)
(***************************************************************************)
\* bound: number of rows of the report the chart is drawn from
MaxChart == 2

\* mutant of getChartEligibleStudents: only the growth percentile is required
getChartEligibleByGrowthOnly(data) ==
    SelectSeq(data, LAMBDA row : row.conditionalGrowthPercentile # Null)

getChartEligibleStudents(data) ==
    SelectSeq(data, LAMBDA row :
        row.winterPercentile # Null /\ row.conditionalGrowthPercentile # Null)

ChartStudents == {"001-0408", "001-0571"}
ChartPercentiles == {EmptyStr, 100, 9600}
ChartCGP == {EmptyStr, 0, 4500}
ChartPeriod == "wintertowinter"

\* the raw rows of a report: end-term percentile and growth percentile vary
ChartRows ==
    {[studentid |-> st, subject |-> "Math K-12", grade |-> "5",
      testritscore |-> 24300, teststandarderror |-> 326, testpercentile |-> pct,
      growth |-> [q \in GrowthPeriods |->
                    IF q = ChartPeriod
                    THEN [observedgrowth |-> 600, projectedgrowth |-> 700,
                          conditionalgrowthindex |-> -17,
                          conditionalgrowthpercentile |-> cgp]
                    ELSE OtherPeriodColumns]] :
        st \in ChartStudents, pct \in ChartPercentiles, cgp \in ChartCGP}

ChartInit ==
    /\ crows \in SeqsUpTo(ChartRows, MaxChart)
    /\ cdata = <<>>
    /\ celigible = <<>>
    /\ cpc = "rows"

\* handleGenerateReport derives the records of the report
DeriveChartData ==
    /\ cpc = "rows"
    /\ cdata' = processData(crows, ChartPeriod, NoLookup, "Winter")
    /\ cpc' = "derived"
    /\ UNCHANGED <<crows, celigible>>
    /\ UNCHANGED <<buildVars, deriveVars, filterVars, labelVars, normVars, appVars, quadVars, gradeVars, groupVars, optionVars>>

\* chartData: the records the quadrant chart plots
ChartData ==
    /\ cpc = "derived"
    /\ celigible' = getChartEligibleStudents(cdata)
    /\ cpc' = "chart"
    /\ UNCHANGED <<crows, cdata>>
    /\ UNCHANGED <<buildVars, deriveVars, filterVars, labelVars, normVars, appVars, quadVars, gradeVars, groupVars, optionVars>>

ChartIdle == crows = <<>> /\ cdata = <<>> /\ celigible = <<>> /\ cpc = "idle"

(***************************************************************************)
(* Quadrant of a student (quadrantLogic.js, getQuadrant).                  *)
(***************************************************************************)
\* mutant of getQuadrant: the boundary value 50 counts as low
getQuadrantBoundaryLow(achievementPercentile, growthPercentile) ==
    LET highAchievement == achievementPercentile > 5000
        highGrowth == growthPercentile > 5000
    IN  IF highAchievement /\ highGrowth THEN "highHigh"
        ELSE IF ~highAchievement /\ highGrowth THEN "lowHigh"
        ELSE IF ~highAchievement /\ ~highGrowth THEN "lowLow"
        ELSE "highLow"

getQuadrant(achievementPercentile, growthPercentile) ==
    LET highAchievement == achievementPercentile >= 5000
        highGrowth == growthPercentile >= 5000
    IN  IF highAchievement /\ highGrowth THEN "highHigh"
        ELSE IF ~highAchievement /\ highGrowth THEN "lowHigh"
        ELSE IF ~highAchievement /\ ~highGrowth THEN "lowLow"
        ELSE "highLow"

\* the percentiles a record can carry: whole percentiles and values next to 50
QuadrantPercentiles == {p * 100 : p \in 0..100} \cup {4950, 4999, 5001}

\* getQuadrant was not called yet
NoQuadrant == ""

QuadrantInit ==
    /\ qachievement \in QuadrantPercentiles
    /\ qgrowth \in QuadrantPercentiles
    /\ quadrant = NoQuadrant

\* the chart and the table ask for the quadrant of a student
GetQuadrant ==
    /\ quadrant = NoQuadrant
    /\ quadrant' = getQuadrant(qachievement, qgrowth)
    /\ UNCHANGED <<qachievement, qgrowth>>
    /\ UNCHANGED <<buildVars, deriveVars, filterVars, labelVars, normVars, chartVars, appVars, gradeVars, groupVars, optionVars>>

QuadIdle == qachievement = 0 /\ qgrowth = 0 /\ quadrant = "idle"

(***************************************************************************)
(* Start grade of a year-over-year period (processData, deriveStartGrade). *)
(***************************************************************************)
StartGradeSubjects == {"Math K-12", "Reading"}
StartGradeSeasons == {"Fall", "Winter"}
\* the grade column of a row: the grades K..12, Pre-K and an empty cell
StartGradeGrades == NormGrades \cup {"PK", ""}
StartGradeRits == {17000, 20550, 23000}

\* deriveStartGrade was not called yet
NoGrade == "none"

StartGradeInit ==
    /\ gsubject \in StartGradeSubjects
    /\ gseason \in StartGradeSeasons
    /\ ggrade \in StartGradeGrades
    /\ grit \in StartGradeRits
    /\ gstart = NoGrade
    /\ gpct = NotLookedUp

\* processData, the year-over-year branch: the start grade and the norms
\* percentile of the start-term score at that grade
LookupAtStartGrade ==
    /\ gstart = NoGrade
    /\ gstart' = deriveStartGrade(ggrade)
    /\ gpct' = lookupPercentile(gsubject, gseason, gstart', grit)
    /\ UNCHANGED <<gsubject, gseason, ggrade, grit>>
    /\ UNCHANGED <<buildVars, deriveVars, filterVars, labelVars, normVars, chartVars, appVars, quadVars, groupVars, optionVars>>

GradeIdle ==
    /\ gsubject = "" /\ gseason = "" /\ ggrade = "" /\ grit = 0
    /\ gstart = "idle" /\ gpct = NotLookedUp

(***************************************************************************)
(* Grouping of the table rows (groupBySubject).                            *)
(***************************************************************************)
\* bound: number of records handed to groupBySubject
MaxGroupRows == 3

\* mutant of GroupKeyOf: the key is always the subject
GroupKeyOfSubjectOnly(row) == row.subject

\* row.course || row.subject ('' is falsy)
GroupKeyOf(row) == IF row.course = "" THEN row.subject ELSE row.course

\* the loop of groupBySubject over the first n records: groups is an object
\* from key to array, a key is created when its first record arrives
RECURSIVE groupBySubjectUpTo(_, _)
groupBySubjectUpTo(data, n) ==
    IF n = 0 THEN <<>>
    ELSE LET before == groupBySubjectUpTo(data, n - 1)
             row == data[n]
             key == GroupKeyOf(row)
         IN  IF key \in DOMAIN before
             THEN [before EXCEPT ![key] = Append(@, row)]
             ELSE before @@ (key :> <<row>>)

groupBySubject(data) == groupBySubjectUpTo(data, Len(data))

\* derived records as far as the grouping reads them
GroupRecords ==
    [studentid : {"001-0408", "001-0571"},
     course : {"", "Math 6+", "Reading"},
     subject : {"Math K-12", "Reading"}]

\* groupBySubject was not called yet
NoGroups == [none |-> <<>>]

GroupInit ==
    /\ grecords \in SeqsUpTo(GroupRecords, MaxGroupRows)
    /\ groups = NoGroups

\* DataTable: groupedData
GroupBySubject ==
    /\ groups = NoGroups
    /\ groups' = groupBySubject(grecords)
    /\ UNCHANGED grecords
    /\ UNCHANGED <<buildVars, deriveVars, filterVars, labelVars, normVars, chartVars, appVars, quadVars, gradeVars, optionVars>>

GroupIdle == grecords = <<>> /\ groups = [idle |-> <<>>]

(***************************************************************************)
(* Report generation (App.jsx, handleGenerateReport).                      *)
(*                                                                         *)
(* A slice file is named by its <<term, district, school>>; a promise is a *)
(* record of its state, its value and the reason of its rejection.         *)
(***************************************************************************)
\* bound: number of generations the user starts
MaxGenerations == 2

\* the '__all__' option of the district and school selects
AllOption == "__all__"

SelectedTerm == TermText("Winter", "2025", "2026")

\* `${n}` of a year
YearText(n) ==
    CASE n = 2023 -> "2023" [] n = 2024 -> "2024" [] n = 2025 -> "2025"
      [] n = 2026 -> "2026" [] OTHER -> ""

\* getPriorTermName returned null
NoTerm == MissingTerm

getPriorTermName(termname, growthPeriod) ==
    LET parsed == parseTerm(termname)
        startYear == parsed.startYear
        endYear == parsed.endYear
    IN  IF parsed.season = "" \/ growthPeriod = "" THEN NoTerm
        ELSE CASE growthPeriod \in {"falltowinter", "falltospring"} ->
                     TermText("Fall", YearText(startYear), YearText(endYear))
               [] growthPeriod = "wintertospring" ->
                     TermText("Winter", YearText(startYear), YearText(endYear))
               [] growthPeriod = "falltofall" ->
                     TermText("Fall", YearText(startYear - 1), YearText(startYear))
               [] growthPeriod = "wintertowinter" ->
                     TermText("Winter", YearText(startYear - 1), YearText(startYear))
               [] growthPeriod = "springtospring" ->
                     TermText("Spring", YearText(startYear - 1), YearText(startYear))
               [] OTHER -> NoTerm

Slice(term, district, school) == [term |-> term, district |-> district, school |-> school]

\* metadata.terms: the slices of the index, in the order of its keys
CurrentSlices ==
    <<Slice(SelectedTerm, "Alpha", "Alpha Austin"), Slice(SelectedTerm, "Alpha", "Alpha Miami")>>
PriorWinter == TermText("Winter", "2024", "2025")
MetadataSet ==
    {CurrentSlices,
     CurrentSlices \o <<Slice(PriorWinter, "Alpha", "Alpha Austin")>>,
     CurrentSlices \o <<Slice(PriorWinter, "Alpha", "Alpha Austin"),
                        Slice(PriorWinter, "Alpha", "Alpha Miami")>>}

\* mutant of filesToLoad: 'All Districts' loads every school of every district,
\* whatever school is selected
filesToLoadEverySchoolOfAllDistricts(sel, meta) ==
    LET termSlices == SelectSeq(meta, LAMBDA s : s.term = sel.termname)
    IN  IF sel.districtname = AllOption
        THEN termSlices
        ELSE IF sel.schoolname = AllOption
             THEN SelectSeq(termSlices, LAMBDA s : s.district = sel.districtname)
             ELSE <<Slice(sel.termname, sel.districtname, sel.schoolname)>>

\* filesToLoad: the slices of the selected term the selection asks for
filesToLoad(sel, meta) ==
    LET termSlices == SelectSeq(meta, LAMBDA s : s.term = sel.termname)
    IN  IF sel.districtname = AllOption
        THEN IF sel.schoolname = AllOption
             THEN termSlices
             ELSE SelectSeq(termSlices, LAMBDA s : s.school = sel.schoolname)
        ELSE IF sel.schoolname = AllOption
             THEN SelectSeq(termSlices, LAMBDA s : s.district = sel.districtname)
             ELSE <<Slice(sel.termname, sel.districtname, sel.schoolname)>>

\* sanitize: str.replace(/[^a-zA-Z0-9-_]/g, '_').toLowerCase(), tabulated
\* for the names of the index
sanitize(str) ==
    CASE str = "Alpha" -> "alpha"
      [] str = "Beta" -> "beta"
      [] str = "Alpha Austin" -> "alpha_austin"
      [] str = "Alpha Miami" -> "alpha_miami"
      [] str = "Beta Boston" -> "beta_boston"
      [] str = "Winter" -> "winter"
      [] str = "Spring" -> "spring"
      [] str = "Fall" -> "fall"
      [] OTHER -> str

\* file.path of a slice: data/<term>/<district>/<school>.json, the term
\* 'Winter 2025-2026' giving 'winter_2025-2026'
pathOf(slice) ==
    <<sanitize(slice.term.word), slice.term.y1, slice.term.y2,
      sanitize(slice.district), sanitize(slice.school)>>

InMetadata(meta, slice) == \E i \in 1..Len(meta) : meta[i] = slice

\* priorFilesToLoad: the same schools, where the prior term has them
priorFilesToLoad(loaded, meta, priorTermName) ==
    LET ofPrior == [i \in 1..Len(loaded) |->
                      Slice(priorTermName, loaded[i].district, loaded[i].school)]
    IN  SelectSeq(ofPrior, LAMBDA s : InMetadata(meta, s))

\* the growth periods a Winter row of the export carries values for
WinterPeriods == {"falltowinter", "wintertowinter"}

\* the growth columns of a period the export left empty
EmptyPeriodColumns ==
    [observedgrowth |-> EmptyStr, projectedgrowth |-> EmptyStr,
     conditionalgrowthindex |-> EmptyStr, conditionalgrowthpercentile |-> EmptyStr]

\* a raw row of a slice file
AppRow(student, grade, gender, rit, observed) ==
    [studentid |-> student, subject |-> "Math K-12", grade |-> grade,
     studentgender |-> gender,
     studentethnicgroup |-> IF gender = "M" THEN "Asian" ELSE "",
     testritscore |-> rit, teststandarderror |-> 326, testpercentile |-> 9600,
     teststartdate |-> 2,
     growth |-> [q \in GrowthPeriods |->
                   IF q \in WinterPeriods
                   THEN [observedgrowth |-> observed, projectedgrowth |-> 700,
                         conditionalgrowthindex |-> -17,
                         conditionalgrowthpercentile |-> 4500]
                   ELSE EmptyPeriodColumns]]

\* response.json() of a slice file
FileContents(slice) ==
    IF slice.term = SelectedTerm
    THEN IF slice.school = "Alpha Austin"
         THEN <<AppRow("001-0408", "5", "M", 24300, 600),
                AppRow("001-0571", "3", "F", 21100, EmptyStr)>>
         ELSE <<AppRow("001-2379", "5", "F", 23000, 400)>>
    ELSE IF slice.school = "Alpha Austin"
         THEN <<[AppRow("001-0408", "4", "M", 23700, 500)
                    EXCEPT !.teststandarderror = 300, !.testpercentile = 9700,
                           !.teststartdate = 1]>>
         ELSE <<[AppRow("001-0408", "4", "M", 23500, 500)
                    EXCEPT !.teststandarderror = 250, !.testpercentile = 9000,
                           !.teststartdate = 1],
                [AppRow("001-2379", "4", "F", 22600, 500)
                    EXCEPT !.teststandarderror = EmptyStr, !.testpercentile = 5000,
                           !.teststartdate = 1]>>

\* what the server does with a request
Outcomes == {"ok", "notok", "reject"}

Pending == [state |-> "pending", value |-> <<>>, reason |-> <<>>]
Fulfilled(value) == [state |-> "fulfilled", value |-> value, reason |-> <<>>]
Rejected(reason) == [state |-> "rejected", value |-> <<>>, reason |-> reason]

\* mutant of primaryResponse: a failed primary fetch yields no rows
primaryResponseSwallowed(outcome, file) ==
    IF outcome = "ok" THEN Fulfilled(FileContents(file)) ELSE Fulfilled(<<>>)

\* the promise of one primary file: fetch, response.ok test, response.json()
primaryResponse(outcome, file) ==
    CASE outcome = "ok" -> Fulfilled(FileContents(file))
      [] outcome = "notok" -> Rejected(<<"HTTP 404 loading", file.school>>)
      [] OTHER -> Rejected(<<"Failed to fetch", file.school>>)

\* mutant of priorResponse: a failed prior-term fetch rejects
priorResponseThrows(outcome, file) ==
    IF outcome = "ok" THEN Fulfilled(FileContents(file))
    ELSE Rejected(<<"Failed to fetch", file.school>>)

\* the promise of one prior-term file: every failure is caught and yields []
priorResponse(outcome, file) ==
    IF outcome = "ok" THEN Fulfilled(FileContents(file)) ELSE Fulfilled(<<>>)

\* mutant of flat: only the rows of the first array are kept
flatFirstOnly(arrays, n) == IF n = 0 THEN <<>> ELSE arrays[1]

\* mutant of PromiseAllValues: the values in the order the promises settled
PromiseAllInSettleOrder(promises, settleOrder) ==
    [k \in 1..Len(settleOrder) |-> promises[settleOrder[k]].value]

\* Promise.all: the values in the order of the promises, whatever the order
\* in which they settled
PromiseAllValues(promises, settleOrder) ==
    [i \in 1..Len(promises) |-> promises[i].value]

\* Array.prototype.flat
RECURSIVE flat(_, _)
flat(arrays, n) == IF n = 0 THEN <<>> ELSE flat(arrays, n - 1) \o arrays[n]

AllFulfilled(promises) == \A i \in 1..Len(promises) : promises[i].state = "fulfilled"
SomeRejected(promises) == \E i \in 1..Len(promises) : promises[i].state = "rejected"

\* the grade filter of the selection
gradeFilter(raw, grades) ==
    IF Len(grades) > 0
    THEN SelectSeq(raw, LAMBDA r : includes(grades, r.grade))
    ELSE raw

\* the loop that builds priorTermLookup: per studentid|subject the row of the
\* latest test date, the first one among equal dates
RECURSIVE buildLookupRows(_, _)
buildLookupRows(priorData, n) ==
    IF n = 0 THEN {}
    ELSE LET before == buildLookupRows(priorData, n - 1)
             row == priorData[n]
             same == {r \in before : GroupKey(r) = GroupKey(row)}
         IN  IF same = {} THEN before \cup {row}
             ELSE IF \A r \in same : row.teststartdate > r.teststartdate
                  THEN (before \ same) \cup {row}
                  ELSE before

\* priorTermLookup after the prior-term fetches settled; the outer catch
\* leaves it null when the prior-term promise rejects
priorLookupOf(priorPromises, settleOrder) ==
    IF SomeRejected(priorPromises) THEN NoLookup
    ELSE LET priorResponses == PromiseAllValues(priorPromises, settleOrder)
             priorData == flat(priorResponses, Len(priorResponses))
         IN  [isNull |-> FALSE, rows |-> buildLookupRows(priorData, Len(priorData))]

\* getUniqueValues: the non-empty values of a column (sorted, so a set)
getUniqueValues(data, column) ==
    {data[i][column] : i \in 1..Len(data)} \ {""}

\* useState: the report filters before any report
InitialReportFilters == [subjects |-> {}, genders |-> {}, ethnicities |-> {}]

\* selection.growthPeriod || 'falltowinter'
growthPeriodOf(sel) == IF sel.growthPeriod = "" THEN "falltowinter" ELSE sel.growthPeriod

\* the records setReportData gets: processData on the rows of the selected grades
reportDataOf(raw, sel, lookup) ==
    processData(gradeFilter(raw, sel.grades), growthPeriodOf(sel), lookup,
                getTermLabels(sel.termname, growthPeriodOf(sel)).startSeason)

\* the filters setReportFilters gets: every value the records hold (a derived
\* record keeps the columns of its row, so these are read from the rows)
reportFiltersOf(raw, sel) ==
    [subjects |-> getUniqueValues(gradeFilter(raw, sel.grades), "subject"),
     genders |-> getUniqueValues(gradeFilter(raw, sel.grades), "studentgender"),
     ethnicities |-> getUniqueValues(gradeFilter(raw, sel.grades), "studentethnicgroup")]

\* the prior-term files the handler asks for, none when getPriorTermName gives
\* no term or the index does not hold it
priorFilesOf(loaded, meta, sel) ==
    IF getPriorTermName(sel.termname, growthPeriodOf(sel)) # NoTerm
    THEN priorFilesToLoad(loaded, meta, getPriorTermName(sel.termname, growthPeriodOf(sel)))
    ELSE <<>>

\* Array.from(values) of getUniqueValues: the array the filter reads (the
\* filter only asks whether a value is included, so the order is left open)
RECURSIVE ArrayFrom(_)
ArrayFrom(values) ==
    IF values = {} THEN <<>>
    ELSE LET v == CHOOSE x \in values : TRUE
         IN  <<v>> \o ArrayFrom(values \ {v})

\* the criteria filteredReportData hands to filterData
reportCriteria(filters) ==
    [termname |-> Undefined, schoolname |-> Undefined, districtname |-> Undefined,
     grades |-> UndefinedArray,
     subjects |-> Array(ArrayFrom(filters.subjects)),
     genders |-> Array(ArrayFrom(filters.genders)),
     ethnicities |-> Array(ArrayFrom(filters.ethnicities))]

\* filterData on the derived records of the report; a derived record keeps the
\* columns of its row (rows[i] is the row of records[i])
RECURSIVE filterReport(_, _, _, _)
filterReport(records, rows, criteria, n) ==
    IF n = 0 THEN <<>>
    ELSE IF filterRow(rows[n], criteria)
         THEN Append(filterReport(records, rows, criteria, n - 1), records[n])
         ELSE filterReport(records, rows, criteria, n - 1)

\* filteredReportData: the records the report view shows
filteredReportData(records, rows, filters) ==
    IF Len(records) = 0 THEN <<>>
    ELSE filterReport(records, rows, reportCriteria(filters), Len(records))

\* the value '' of the term select
NoTermName == TermText("", "", "")

\* the build's growthPeriods of a slice: the periods for which some row holds a
\* conditional growth percentile (the text of a cell; '0' is text, not empty)
detectGrowthPeriods(rows) ==
    {p \in GrowthPeriods :
        \E i \in 1..Len(rows) :
            GrowthColumn(rows[i], p, "conditionalgrowthpercentile") \notin {EmptyStr, Null}}

\* the entry of the index for a slice, written with the slice file
schoolMetaOf(slice) == [growthPeriods |-> detectGrowthPeriods(FileContents(slice))]

\* availableOptions: the options of the selects for the current selection;
\* schoolMeta maps a slice to its entry in the index
availableOptions(meta, sel, schoolMeta) ==
    LET all == {meta[i] : i \in 1..Len(meta)}
        termData == {s \in all : s.term = sel.termname}
        inDistrict == {s \in termData : s.district = sel.districtname}
        chosen == sel.termname # NoTermName /\ sel.districtname # ""
        counted == IF ~chosen THEN {}
                   ELSE IF sel.districtname = AllOption
                   THEN {s \in termData :
                            sel.schoolname = AllOption \/ sel.schoolname = s.school}
                   ELSE IF sel.schoolname = AllOption THEN inDistrict
                   ELSE {s \in inDistrict : s.school = sel.schoolname}
    IN  [terms |-> {s.term : s \in all},
         districts |-> IF sel.termname # NoTermName
                       THEN {s.district : s \in termData} ELSE {},
         schools |-> IF ~chosen THEN {}
                     ELSE IF sel.districtname = AllOption
                     THEN {s.school : s \in termData}
                     ELSE {s.school : s \in inDistrict},
         growthPeriods |-> UNION {schoolMeta[s].growthPeriods : s \in counted}]

\* the entries of the index the build wrote for the slices
IndexEntries(meta) == [s \in {meta[i] : i \in 1..Len(meta)} |-> schoolMetaOf(s)]

\* dataError is null
NoError == <<>>

\* LEVEL_GRADES[level] || [], [] for the empty value of the level select
LEVEL_GRADES(level) ==
    CASE level = "WL" -> <<"PK">>
      [] level = "LL" -> <<"K", "1">>
      [] level = "L1" -> <<"2", "3">>
      [] level = "L2" -> <<"4", "5">>
      [] level = "MS" -> <<"6", "7", "8">>
      [] level = "HS" -> <<"9", "10", "11", "12">>
      [] OTHER -> <<>>

\* useState: the selection before the user chose anything
EmptySelection ==
    [termname |-> NoTermName, districtname |-> "", schoolname |-> "",
     level |-> "", grades |-> <<>>, growthPeriod |-> ""]

\* the options of the level select (LEVEL_LABELS)
LevelsOffered == {"WL", "LL", "L1", "L2", "MS", "HS"}

\* the selects of the selection view
SelectFields == {"termname", "districtname", "schoolname", "growthPeriod", "level"}

\* handleSelectionChange: the selection after the field was set to the value;
\* an upstream change resets everything downstream
handleSelectionChange(prev, field, value) ==
    LET updated == [prev EXCEPT ![field] = value]
    IN  CASE field = "termname" ->
               [updated EXCEPT !.districtname = "", !.schoolname = "", !.level = "",
                               !.grades = <<>>, !.growthPeriod = ""]
          [] field = "districtname" ->
               [updated EXCEPT !.schoolname = "", !.level = "",
                               !.grades = <<>>, !.growthPeriod = ""]
          [] field = "schoolname" ->
               [updated EXCEPT !.level = "", !.grades = <<>>, !.growthPeriod = ""]
          [] field = "level" ->
               [updated EXCEPT !.grades = IF value # "" THEN LEVEL_GRADES(value) ELSE <<>>]
          [] OTHER -> updated

\* the <option> values of a select
OfferedValues(field, options) ==
    CASE field = "termname" -> {NoTermName} \cup options.terms
      [] field = "districtname" ->
           {""} \cup (IF Cardinality(options.districts) > 1 THEN {AllOption} ELSE {})
                \cup options.districts
      [] field = "schoolname" ->
           {""} \cup (IF Cardinality(options.schools) > 1 THEN {AllOption} ELSE {})
                \cup options.schools
      [] field = "growthPeriod" -> {""} \cup options.growthPeriods
      [] OTHER -> {""} \cup LevelsOffered

\* mutant of SelectDisabled: the selects stay enabled while a request runs
SelectDisabledIgnoringLoading(field, sel, isLoading) ==
    CASE field = "termname" -> FALSE
      [] field = "districtname" -> sel.termname = NoTermName
      [] field = "schoolname" -> sel.districtname = ""
      [] OTHER -> sel.schoolname = ""

\* mutant of SelectDisabled: every select is enabled whenever nothing loads
SelectDisabledOnlyWhileLoading(field, sel, isLoading) == isLoading

\* the disabled attribute of a select (the index is loaded: hasData)
SelectDisabled(field, sel, isLoading) ==
    CASE field = "termname" -> isLoading
      [] field = "districtname" -> sel.termname = NoTermName \/ isLoading
      [] field = "schoolname" -> sel.districtname = "" \/ isLoading
      [] OTHER -> sel.schoolname = "" \/ isLoading

\* canGenerate: the Generate Report button is enabled
canGenerate(sel, isLoading) ==
    /\ sel.termname # NoTermName
    /\ sel.districtname # ""
    /\ sel.schoolname # ""
    /\ sel.growthPeriod # ""
    /\ ~isLoading

\* the selections the user may generate a report for
Selections ==
    {[termname |-> SelectedTerm, districtname |-> district, schoolname |-> school,
      level |-> level, grades |-> LEVEL_GRADES(level), growthPeriod |-> period] :
        district \in {"Alpha", AllOption}, school \in {"Alpha Austin", AllOption},
        level \in {"", "L2"}, period \in {"", "wintertowinter"}}

\* what the handler remembers of the state before it ran
NoSnapshot == [reportData |-> <<>>, reportFilters |-> InitialReportFilters]

\* the app once the index is loaded
Mounted(indexes) ==
    /\ view = "selection"
    /\ reportData = <<>>
    /\ reportFilters = InitialReportFilters
    /\ dataLoading = FALSE
    /\ dataError = NoError
    /\ metadata \in indexes
    /\ selection = EmptySelection
    /\ gpc = "idle"
    /\ files = <<>> /\ outcomes = <<>> /\ primary = <<>> /\ settled = <<>>
    /\ priorFiles = <<>> /\ priorOutcomes = <<>> /\ prior = <<>> /\ priorSettled = <<>>
    /\ rawData = <<>>
    /\ priorLookup = NoLookup
    /\ atStart = NoSnapshot
    /\ errorsShown = 0
    /\ requests = 0
    /\ gens = 0

AppInit == Mounted(MetadataSet)

\* an index with two districts, a school name both districts hold, and a
\* prior term
RichSlices ==
    <<Slice(SelectedTerm, "Alpha", "Alpha Austin"), Slice(SelectedTerm, "Alpha", "Alpha Miami"),
      Slice(SelectedTerm, "Beta", "Alpha Austin"), Slice(SelectedTerm, "Beta", "Beta Boston"),
      Slice(PriorWinter, "Alpha", "Alpha Austin")>>

SelectInit == Mounted({RichSlices, CurrentSlices})

\* the index of a whole session: one district, two schools, and the prior
\* winter of one of them
SessionSlices == CurrentSlices \o <<Slice(PriorWinter, "Alpha", "Alpha Austin")>>

SessionInit == Mounted({SessionSlices})

\* the end of the try block: processData, setReportData, setReportFilters,
\* setView('report'), and the finally block
Finish ==
    /\ reportData' = reportDataOf(rawData', selection, priorLookup')
    /\ reportFilters' = reportFiltersOf(rawData', selection)
    /\ view' = "report"
    /\ dataLoading' = FALSE
    /\ gpc' = "done"

\* handleGenerateReport up to its first await, for the selection it closes
\* over: every primary file is requested
StartRequest(sel) ==
    /\ selection' = sel
    /\ files' = filesToLoad(sel, metadata)
    /\ outcomes' = [i \in 1..Len(files') |-> "pending"]
    /\ primary' = [i \in 1..Len(files') |-> Pending]
    /\ requests' = Len(files')
    /\ dataLoading' = TRUE
    /\ dataError' = NoError
    /\ errorsShown' = 0
    /\ atStart' = [reportData |-> reportData, reportFilters |-> reportFilters]
    /\ settled' = <<>>
    /\ priorFiles' = <<>> /\ priorOutcomes' = <<>> /\ prior' = <<>> /\ priorSettled' = <<>>
    /\ rawData' = <<>>
    /\ priorLookup' = NoLookup
    /\ gpc' = "primary"
    /\ gens' = gens + 1
    /\ UNCHANGED <<view, reportData, reportFilters, metadata>>
    /\ UNCHANGED <<buildVars, deriveVars, filterVars, labelVars, normVars, chartVars, quadVars, gradeVars, groupVars, optionVars>>

\* the user picks a selection and clicks Generate Report
Generate ==
    /\ view = "selection"
    /\ ~dataLoading
    /\ gens < MaxGenerations
    /\ \E sel \in Selections : StartRequest(sel)

\* the user changes one select of the selection view
SelectionChange ==
    /\ view = "selection"
    /\ \E field \in SelectFields :
          /\ ~SelectDisabled(field, selection, dataLoading)
          /\ \E value \in OfferedValues(field,
                              availableOptions(metadata, selection, IndexEntries(metadata))) :
                /\ value # selection[field]
                /\ selection' = handleSelectionChange(selection, field, value)
    /\ UNCHANGED <<view, reportData, reportFilters, dataLoading, dataError, metadata,
                   gpc, files, outcomes, primary, settled, priorFiles, priorOutcomes,
                   prior, priorSettled, rawData, priorLookup, atStart, errorsShown,
                   requests, gens>>
    /\ UNCHANGED <<buildVars, deriveVars, filterVars, labelVars, normVars, chartVars, quadVars, gradeVars, groupVars, optionVars>>

\* the user clicks Generate Report on the selection the selects hold
ClickGenerate ==
    /\ view = "selection"
    /\ canGenerate(selection, dataLoading)
    /\ gens < MaxGenerations
    /\ StartRequest(selection)

\* a primary fetch settles while Promise.all is awaited; the handler runs on
\* when the promise of Promise.all settles with it
SettlePrimary ==
    /\ gpc = "primary"
    /\ \E i \in 1..Len(files), outcome \in Outcomes :
          /\ outcomes[i] = "pending"
          /\ outcomes' = [outcomes EXCEPT ![i] = outcome]
          /\ primary' = [primary EXCEPT ![i] = primaryResponse(outcome, files[i])]
          /\ settled' = Append(settled, i)
          /\ IF primary'[i].state = "rejected"
             THEN \* catch and finally
                  /\ dataError' = <<"Failed to load data">> \o primary'[i].reason
                  /\ errorsShown' = errorsShown + 1
                  /\ dataLoading' = FALSE
                  /\ gpc' = "failed"
                  /\ UNCHANGED <<view, reportData, reportFilters, rawData, priorLookup,
                                 priorFiles, priorOutcomes, prior, requests>>
             ELSE IF ~AllFulfilled(primary')
             THEN UNCHANGED <<view, reportData, reportFilters, dataLoading, dataError,
                              errorsShown, gpc, rawData, priorLookup, priorFiles,
                              priorOutcomes, prior, requests>>
             ELSE /\ rawData' = flat(PromiseAllValues(primary', settled'), Len(primary'))
                  /\ priorFiles' = priorFilesOf(files, metadata, selection)
                  /\ priorOutcomes' = [k \in 1..Len(priorFiles') |-> "pending"]
                  /\ prior' = [k \in 1..Len(priorFiles') |-> Pending]
                  /\ requests' = requests + Len(priorFiles')
                  /\ UNCHANGED <<dataError, errorsShown, priorLookup>>
                  /\ IF Len(priorFiles') > 0
                     THEN \* the prior-term files are requested
                          /\ gpc' = "prior"
                          /\ UNCHANGED <<view, reportData, reportFilters, dataLoading>>
                     ELSE Finish
    /\ UNCHANGED <<metadata, selection, files, priorSettled, atStart, gens>>
    /\ UNCHANGED <<buildVars, deriveVars, filterVars, labelVars, normVars, chartVars, quadVars, gradeVars, groupVars, optionVars>>

\* a primary fetch settles after Promise.all has rejected: nobody awaits it
SettleLate ==
    /\ gpc = "failed"
    /\ \E i \in 1..Len(files), outcome \in Outcomes :
          /\ outcomes[i] = "pending"
          /\ outcomes' = [outcomes EXCEPT ![i] = outcome]
          /\ primary' = [primary EXCEPT ![i] = primaryResponse(outcome, files[i])]
          /\ settled' = Append(settled, i)
    /\ UNCHANGED <<view, reportData, reportFilters, dataLoading, dataError, metadata,
                   selection, gpc, files, priorFiles, priorOutcomes, prior,
                   priorSettled, rawData, priorLookup, atStart, errorsShown,
                   requests, gens>>
    /\ UNCHANGED <<buildVars, deriveVars, filterVars, labelVars, normVars, chartVars, quadVars, gradeVars, groupVars, optionVars>>

\* a prior-term fetch settles; after the last one the lookup is built and the
\* report is set
SettlePrior ==
    /\ gpc = "prior"
    /\ \E i \in 1..Len(priorFiles), outcome \in Outcomes :
          /\ priorOutcomes[i] = "pending"
          /\ priorOutcomes' = [priorOutcomes EXCEPT ![i] = outcome]
          /\ prior' = [prior EXCEPT ![i] = priorResponse(outcome, priorFiles[i])]
          /\ priorSettled' = Append(priorSettled, i)
    /\ UNCHANGED <<dataError, metadata, selection, files, outcomes, primary, settled,
                   priorFiles, rawData, atStart, errorsShown, requests, gens>>
    /\ IF \A k \in 1..Len(prior') : prior'[k].state # "pending"
       THEN /\ priorLookup' = priorLookupOf(prior', priorSettled')
            /\ Finish
       ELSE UNCHANGED <<view, reportData, reportFilters, dataLoading, priorLookup, gpc>>
    /\ UNCHANGED <<buildVars, deriveVars, filterVars, labelVars, normVars, chartVars, quadVars, gradeVars, groupVars, optionVars>>

\* handleEditCriteria: back to the selection view
EditCriteria ==
    /\ view = "report"
    /\ view' = "selection"
    /\ gpc' = "idle"
    /\ UNCHANGED <<reportData, reportFilters, dataLoading, dataError, metadata,
                   selection, files, outcomes, primary, settled, priorFiles,
                   priorOutcomes, prior, priorSettled, rawData, priorLookup,
                   atStart, errorsShown, requests, gens>>
    /\ UNCHANGED <<buildVars, deriveVars, filterVars, labelVars, normVars, chartVars, quadVars, gradeVars, groupVars, optionVars>>

(***************************************************************************)
(* Growth-period options: from the rows of a term (build script) to the    *)
(* options of the growth-period select (App.jsx, availableOptions).        *)
(***************************************************************************)
\* bound: number of rows of the term in the CSV
MaxOptionRows == 2

OptionTerms ==
    {TermText("Fall", "2025", "2026"), TermText("Winter", "2025", "2026"),
     TermText("Spring", "2025", "2026")}

OptionSchools == {"Alpha Austin", "Alpha Miami"}

\* the periods whose conditional growth percentile a row may hold
OptionPeriods == {"falltowinter", "falltospring"}

\* a row of the CSV with the columns the build reads
OptionRow(student, school, populated) ==
    [studentid |-> student, subject |-> "Math K-12", schoolname |-> school,
     growthmeasureyn |-> "", teststandarderror |-> 300, teststartdate |-> 1,
     testritscore |-> 20000,
     growth |-> [q \in GrowthPeriods |->
                   IF q \in populated
                   THEN [observedgrowth |-> 500, projectedgrowth |-> 700,
                         conditionalgrowthindex |-> -17,
                         conditionalgrowthpercentile |-> 4500]
                   ELSE EmptyPeriodColumns]]

OptionRows ==
    {OptionRow(student, school, populated) :
        student \in {"001-0408", "001-0571"}, school \in OptionSchools,
        populated \in SUBSET OptionPeriods}

NoIndex == [none |-> {}]
NotOffered == {"none"}

OptionInit ==
    /\ oterm \in OptionTerms
    /\ orows \in SeqsUpTo(OptionRows, MaxOptionRows)
    /\ oindex = NoIndex
    /\ oschool = ""
    /\ ooffered = NotOffered

\* hierarchy[term][district][school]: the rows of a school, in file order
SchoolRowsOf(rows, school) == SelectSeq(rows, LAMBDA r : r.schoolname = school)

\* the schools of the hierarchy, in the order their first rows arrive
SchoolsInOrder(rows) ==
    KeysInOrder([i \in 1..Len(rows) |-> rows[i].schoolname], Len(rows))

\* the build: the entry of every school of the term, growthPeriods detected
\* on the deduplicated rows
BuildIndex ==
    /\ oindex = NoIndex
    /\ oindex' = [school \in {r.schoolname : r \in {orows[i] : i \in 1..Len(orows)}} |->
                    [growthPeriods |->
                        detectGrowthPeriods(deduplicateTermData(SchoolRowsOf(orows, school)))]]
    /\ UNCHANGED <<oterm, orows, oschool, ooffered>>
    /\ UNCHANGED <<buildVars, deriveVars, filterVars, labelVars, normVars, chartVars, appVars, quadVars, gradeVars, groupVars>>

\* the app: term and district are selected, the user picks a school and the
\* growth-period select shows its options
OfferGrowthPeriods ==
    /\ oindex # NoIndex
    /\ ooffered = NotOffered
    /\ LET order == SchoolsInOrder(orows)
           meta == [i \in 1..Len(order) |-> Slice(oterm, "Alpha", order[i])]
           sel == [EmptySelection EXCEPT !.termname = oterm, !.districtname = "Alpha"]
           Entry == [s \in {meta[i] : i \in 1..Len(meta)} |-> oindex[s.school]]
       IN  \E school \in OfferedValues("schoolname", availableOptions(meta, sel, Entry)) \ {""} :
              /\ oschool' = school
              /\ ooffered' = availableOptions(meta, [sel EXCEPT !.schoolname = school],
                                              Entry).growthPeriods
    /\ UNCHANGED <<oterm, orows, oindex>>
    /\ UNCHANGED <<buildVars, deriveVars, filterVars, labelVars, normVars, chartVars, appVars, quadVars, gradeVars, groupVars>>

OptionIdle ==
    /\ oterm = NoTermName /\ orows = <<>> /\ oindex = [idle |-> {}]
    /\ oschool = "" /\ ooffered = {"idle"}

AppIdle ==
    /\ view = "" /\ reportData = <<>> /\ reportFilters = InitialReportFilters
    /\ dataLoading = FALSE /\ dataError = NoError /\ metadata = <<>>
    /\ selection = EmptySelection /\ gpc = "off"
    /\ files = <<>> /\ outcomes = <<>> /\ primary = <<>> /\ settled = <<>>
    /\ priorFiles = <<>> /\ priorOutcomes = <<>> /\ prior = <<>> /\ priorSettled = <<>>
    /\ rawData = <<>> /\ priorLookup = NoLookup /\ atStart = NoSnapshot
    /\ errorsShown = 0 /\ requests = 0 /\ gens = 0

(***************************************************************************)
(* Specifications.                                                         *)
(***************************************************************************)
BuildNext == ReadRow \/ EndOfCsv \/ BuildSlice \/ BuildDone
InitBuild == BuildInit /\ DeriveIdle /\ FilterIdle /\ LabelIdle /\ NormIdle /\ ChartIdle /\ AppIdle
    /\ QuadIdle /\ GradeIdle /\ GroupIdle /\ OptionIdle
SpecBuild == InitBuild /\ [][BuildNext]_vars

DeriveNext == ProcessData \/ RenderRow
InitDerive == DeriveInit /\ BuildIdle /\ FilterIdle /\ LabelIdle /\ NormIdle /\ ChartIdle /\ AppIdle
    /\ QuadIdle /\ GradeIdle /\ GroupIdle /\ OptionIdle
SpecDerive == InitDerive /\ [][DeriveNext]_vars

FilterNext == Filter
InitFilter == FilterInit /\ BuildIdle /\ DeriveIdle /\ LabelIdle /\ NormIdle /\ ChartIdle /\ AppIdle
    /\ QuadIdle /\ GradeIdle /\ GroupIdle /\ OptionIdle
SpecFilter == InitFilter /\ [][FilterNext]_vars

LabelNext == GetTermLabels
InitLabels == LabelInit /\ BuildIdle /\ DeriveIdle /\ FilterIdle /\ NormIdle /\ ChartIdle /\ AppIdle
    /\ QuadIdle /\ GradeIdle /\ GroupIdle /\ OptionIdle
SpecLabels == InitLabels /\ [][LabelNext]_vars

NormNext == Lookup
InitNorms == NormInit /\ BuildIdle /\ DeriveIdle /\ FilterIdle /\ LabelIdle /\ ChartIdle /\ AppIdle
    /\ QuadIdle /\ GradeIdle /\ GroupIdle /\ OptionIdle
SpecNorms == InitNorms /\ [][NormNext]_vars

ChartNext == DeriveChartData \/ ChartData
InitChart == ChartInit /\ BuildIdle /\ DeriveIdle /\ FilterIdle /\ LabelIdle /\ NormIdle /\ AppIdle
    /\ QuadIdle /\ GradeIdle /\ GroupIdle /\ OptionIdle
SpecChart == InitChart /\ [][ChartNext]_vars

AppNext == Generate \/ SettlePrimary \/ SettleLate \/ SettlePrior \/ EditCriteria
InitApp ==
    AppInit /\ BuildIdle /\ DeriveIdle /\ FilterIdle /\ LabelIdle /\ NormIdle /\ ChartIdle
    /\ QuadIdle /\ GradeIdle /\ GroupIdle /\ OptionIdle
SpecApp == InitApp /\ [][AppNext]_vars

QuadrantNext == GetQuadrant
InitQuadrant ==
    QuadrantInit /\ BuildIdle /\ DeriveIdle /\ FilterIdle /\ LabelIdle /\ NormIdle /\ ChartIdle
    /\ AppIdle /\ GradeIdle /\ GroupIdle /\ OptionIdle
SpecQuadrant == InitQuadrant /\ [][QuadrantNext]_vars

StartGradeNext == LookupAtStartGrade
InitGrades ==
    StartGradeInit /\ BuildIdle /\ DeriveIdle /\ FilterIdle /\ LabelIdle /\ NormIdle /\ ChartIdle
    /\ AppIdle /\ QuadIdle /\ GroupIdle /\ OptionIdle
SpecGrades == InitGrades /\ [][StartGradeNext]_vars

GroupNext == GroupBySubject
InitGroups ==
    GroupInit /\ BuildIdle /\ DeriveIdle /\ FilterIdle /\ LabelIdle /\ NormIdle /\ ChartIdle
    /\ AppIdle /\ QuadIdle /\ GradeIdle /\ OptionIdle
SpecGroups == InitGroups /\ [][GroupNext]_vars

SelectNext == SelectionChange \/ ClickGenerate
InitSelect ==
    SelectInit /\ BuildIdle /\ DeriveIdle /\ FilterIdle /\ LabelIdle /\ NormIdle /\ ChartIdle
    /\ QuadIdle /\ GradeIdle /\ GroupIdle /\ OptionIdle
SpecSelect == InitSelect /\ [][SelectNext]_vars

SessionNext ==
    \/ SelectionChange \/ ClickGenerate
    \/ SettlePrimary \/ SettleLate \/ SettlePrior \/ EditCriteria
InitSession ==
    SessionInit /\ BuildIdle /\ DeriveIdle /\ FilterIdle /\ LabelIdle /\ NormIdle /\ ChartIdle
    /\ QuadIdle /\ GradeIdle /\ GroupIdle /\ OptionIdle
SpecSession == InitSession /\ [][SessionNext]_vars

OptionNext == BuildIndex \/ OfferGrowthPeriods
InitOptions ==
    OptionInit /\ BuildIdle /\ DeriveIdle /\ FilterIdle /\ LabelIdle /\ NormIdle /\ ChartIdle
    /\ AppIdle /\ QuadIdle /\ GradeIdle /\ GroupIdle
SpecOptions == InitOptions /\ [][OptionNext]_vars

(***************************************************************************)
(* Claims about the build-time deduplication (SpecBuild).                  *)
(***************************************************************************)
SE(r) == r.teststandarderror
HasSE(r) == SE(r) # EmptyStr

\* a beats b in the stated priority: lower standard error (a missing one is
\* worse than any value), then later date, then higher RIT
BeatsInPriority(a, b) ==
    \/ HasSE(a) /\ (~HasSE(b) \/ SE(a) < SE(b))
    \/ /\ (HasSE(a) /\ HasSE(b) /\ SE(a) = SE(b)) \/ (~HasSE(a) /\ ~HasSE(b))
       /\ \/ a.teststartdate > b.teststartdate
          \/ /\ a.teststartdate = b.teststartdate
             /\ a.testritscore > b.testritscore

Range(q) == {q[i] : i \in 1..Len(q)}

NoFlag(rows) == \A i \in 1..Len(rows) : ~IsFlagged(rows[i])

\* the rows of a sequence in the order a permutation of its indices gives
Permuted(rows, pi) == [i \in 1..Len(rows) |-> rows[pi[i]]]

\* C1: in a slice without flagged rows every (studentid, subject) group is
\* reduced to one row that no row of the group beats in the priority lowest
\* standard error, then latest date, then highest RIT, whatever the order of
\* the input rows.
C1_DedupPriorityOrder ==
    \A k \in Written :
        LET input == SchoolRows(csvRows, k)
        IN  NoFlag(input) =>
              /\ \A r \in Range(input) :
                    \E o \in Range(slices[k]) :
                        /\ GroupKey(o) = GroupKey(r)
                        /\ ~BeatsInPriority(r, o)
              /\ \A pi \in Permutations(1..Len(input)) :
                    Range(deduplicateTermData(Permuted(input, pi))) = Range(slices[k])

\* C2: when any row of a term is flagged growthmeasureyn = 'true', every
\* slice written for that term holds exactly the flagged rows of its school
\* and no row without the flag.
C2_FlagPrecedencePerTerm ==
    \A k \in Written :
        (\E r \in Range(HierarchyRows(csvRows)) : r.termname = k[1] /\ IsFlagged(r))
            => /\ \A o \in Range(slices[k]) : IsFlagged(o)
               /\ Range(slices[k]) = {r \in Range(SchoolRows(csvRows, k)) : IsFlagged(r)}

OnePerStudentSubject(rows) ==
    \A i, j \in 1..Len(rows) : i # j => GroupKey(rows[i]) # GroupKey(rows[j])

RECURSIVE MergedSlices(_)
MergedSlices(keys) ==
    IF keys = {} THEN <<>>
    ELSE LET k == CHOOSE x \in keys : TRUE
         IN  slices[k] \o MergedSlices(keys \ {k})

\* C3: after deduplication a term holds at most one row per (studentid,
\* subject): in every written slice, and in the deduplicated merge of the
\* slices of a term.
C3_OneRowPerStudentSubject ==
    /\ \A k \in Written : OnePerStudentSubject(slices[k])
    /\ \A t \in Terms :
          OnePerStudentSubject(deduplicateData(MergedSlices({k \in Written : k[1] = t})))

\* C4: in the fallback reduction a row without standard error never wins
\* over a row of its group that has one.
C4_MissingSENeverWins ==
    \A k \in Written :
        LET input == SchoolRows(csvRows, k)
        IN  NoFlag(input) =>
              \A o \in Range(slices[k]) :
                  (\E r \in Range(input) : GroupKey(r) = GroupKey(o) /\ HasSE(r))
                      => HasSE(o)

(***************************************************************************)
(* Claims about the derivation and the table row (SpecDerive).             *)
(***************************************************************************)
Derived == processed # NoRecord
Rendered == cells # NoCells

\* the raw growth cells of the selected period
ObservedCell == GrowthColumn(drow, dperiod, "observedgrowth")
ProjectedCell == GrowthColumn(drow, dperiod, "projectedgrowth")

\* a raw cell without a number: '', null / undefined, or text that is no number
NoNumber(cell) == cell \in {EmptyStr, Null, BadText}

\* C5: a growth cell that is empty, missing or unparseable derives to null,
\* never to 0, and a cell holding '0' derives to the number 0.
C5_SafeParseNullNotZero ==
    Derived =>
        /\ NoNumber(ObservedCell) <=> processed.observedGrowth = Null
        /\ NoNumber(ProjectedCell) <=> processed.projectedGrowth = Null
        /\ ObservedCell = 0 => processed.observedGrowth = 0
        /\ ProjectedCell = 0 => processed.projectedGrowth = 0

C5_Witness ==
    /\ Derived
    /\ ObservedCell = EmptyStr /\ processed.observedGrowth = Null
    /\ ProjectedCell = 0 /\ processed.projectedGrowth = 0

\* C6: without an observed growth the start-term score is null; without any
\* growth data every start-term field is absent, also when the prior-term
\* lookup holds a record of the student, and the start-term range renders as
\* the em-dash.
C6_StartTermNeverInvented ==
    Derived =>
        /\ NoNumber(ObservedCell) => processed.fallRIT = Null
        /\ (NoNumber(ObservedCell) /\ NoNumber(ProjectedCell)) =>
              /\ processed.fallRIT = Null
              /\ processed.projectedRIT = Null
              /\ processed.startTermPercentile = Null
              /\ processed.startTermPercentileLow = Null
              /\ processed.startTermPercentileHigh = Null
              /\ processed.startTermSE = Null
        /\ (Rendered /\ NoNumber(ObservedCell)) => cells.startRitRange = NoRange

C6_Witness ==
    /\ Rendered
    /\ ObservedCell = EmptyStr /\ ProjectedCell = EmptyStr
    /\ drow.testritscore = 24300
    /\ \E r \in dprior.rows : r.testpercentile = 9700
    /\ dperiod = "wintertowinter"
    /\ processed.fallRIT = Null /\ processed.startTermPercentile = Null

\* C7: the end-term RIT range of a record with a score is
\* round(score - SE) .. round(score + SE).
C7_RitRangeOneSE ==
    (Rendered /\ processed.winterRIT # Null) =>
        LET score == safeParseFloat(drow.testritscore)
            se == Coalesce(safeParseFloat(drow.teststandarderror), 0)
        IN  /\ cells.endRitRange[1] = MathRound(score - se)
            /\ cells.endRitRange[3] = MathRound(score + se)

\* C8: the Growth Index cell shows observed growth minus projected growth
\* when both are present and the em-dash otherwise; the Conditional Growth
\* Index cell shows the row's conditional growth index.
C8_GrowthIndexIsObservedMinusProjected ==
    Rendered =>
        /\ cells.growthIndex =
              IF processed.observedGrowth # Null /\ processed.projectedGrowth # Null
              THEN processed.observedGrowth - processed.projectedGrowth
              ELSE Null
        /\ cells.conditionalGrowthIndex =
              safeParseFloat(GrowthColumn(drow, dperiod, "conditionalgrowthindex"))

(***************************************************************************)
(* Claims about filterData (SpecFilter).                                   *)
(***************************************************************************)
Filtered == fpc = "filtered"

\* the record field a criterion looks at
FieldOf(c) ==
    CASE c = "grades" -> "grade"
      [] c = "subjects" -> "subject"
      [] c = "genders" -> "studentgender"
      [] c = "ethnicities" -> "studentethnicgroup"
      [] OTHER -> c

\* the filter object with criterion c not set
Without(filters, c) ==
    [filters EXCEPT ![c] = IF c \in ScalarCriteria THEN Undefined ELSE UndefinedArray]

\* the result the other criteria give
ResultWithout(c) == filterData(fdata, Without(ffilters, c))

ActiveEmpty == {"subjects", "genders", "ethnicities"}

\* C9: a subjects / genders / ethnicities criterion that is an array keeps
\* exactly the records whose field is one of its items (none for an empty
\* array); one that is undefined or no array filters nothing.
C9_ActiveEmptyArrays ==
    Filtered =>
        \A c \in ActiveEmpty :
            IF ffilters[c].kind = "array"
            THEN fresult = SelectSeq(ResultWithout(c),
                              LAMBDA r : includes(ffilters[c].items, r[FieldOf(c)]))
            ELSE fresult = ResultWithout(c)

C9_Witness ==
    /\ Filtered
    /\ fdata # <<>>
    /\ ffilters.subjects = Array(<<>>)
    /\ ActiveCriteria(ffilters) = {"subjects"}
    /\ fresult = <<>>

\* C10 as stated: empty grades filter nothing, non-empty grades keep their
\* members, and a termname / schoolname / districtname that is given keeps
\* exactly the records whose field equals it.
C10_GradesAndScalars ==
    Filtered =>
        /\ fresult = IF ffilters.grades.kind = "array" /\ ffilters.grades.items # <<>>
                     THEN SelectSeq(ResultWithout("grades"),
                              LAMBDA r : includes(ffilters.grades.items, r.grade))
                     ELSE ResultWithout("grades")
        /\ \A c \in ScalarCriteria :
              fresult = IF ffilters[c] # Undefined
                        THEN SelectSeq(ResultWithout(c), LAMBDA r : r[c] = ffilters[c])
                        ELSE ResultWithout(c)

\* C10 amended: as stated, for a scalar criterion that is a non-empty string;
\* an empty string filters nothing, like undefined.
C10_GradesAndNonEmptyScalars ==
    Filtered =>
        /\ fresult = IF ffilters.grades.kind = "array" /\ ffilters.grades.items # <<>>
                     THEN SelectSeq(ResultWithout("grades"),
                              LAMBDA r : includes(ffilters.grades.items, r.grade))
                     ELSE ResultWithout("grades")
        /\ \A c \in ScalarCriteria :
              fresult = IF ffilters[c] \notin {Undefined, ""}
                        THEN SelectSeq(ResultWithout(c), LAMBDA r : r[c] = ffilters[c])
                        ELSE ResultWithout(c)

C10_Witness ==
    /\ Filtered
    /\ Len(fdata) = 2
    /\ ffilters.grades = Array(<<>>)
    /\ ffilters.termname = "Winter 2025-2026"
    /\ ActiveCriteria(ffilters) = {"grades", "termname"}
    /\ Len(fresult) = 1

(***************************************************************************)
(* Claims about the term and growth period resolver (SpecLabels).          *)
(***************************************************************************)
Labelled == labels # NoLabels

\* the term name reads '{Fall|Winter|Spring} YYYY-YYYY'
WellFormedTerm ==
    /\ ~ltermname.missing
    /\ ltermname.word \in {"Fall", "Winter", "Spring"}
    /\ ltermname.y1 \in FourDigits
    /\ ltermname.y2 \in FourDigits

\* the resolution table: <<start season, start year, end season, end year>>
ResolutionTable(period, Y1, Y2) ==
    CASE period = "falltowinter"   -> <<"Fall", Y1, "Winter", Y2>>
      [] period = "falltospring"   -> <<"Fall", Y1, "Spring", Y2>>
      [] period = "wintertospring" -> <<"Winter", Y2, "Spring", Y2>>
      [] period = "falltofall"     -> <<"Fall", Y1 - 1, "Fall", Y1>>
      [] period = "wintertowinter" -> <<"Winter", Y1, "Winter", Y2>>
      [] period = "springtospring" -> <<"Spring", Y1, "Spring", Y2>>

ShortCode(season) ==
    CASE season = "Fall" -> "FA" [] season = "Winter" -> "WI" [] season = "Spring" -> "SP"

C12_UnparseableTermGivesEmptyLabels ==
    (Labelled /\ ~WellFormedTerm) =>
        /\ labels.startLabel = "" /\ labels.endLabel = ""
        /\ labels.startCode = "" /\ labels.endCode = ""
        /\ labels.startSeason = "" /\ labels.endSeason = ""

C12_Witness ==
    /\ Labelled
    /\ ltermname = TermText("Summer", "2025", "2026")
    /\ lperiod = "falltowinter"
    /\ labels = EmptyLabels

(***************************************************************************)
(* Claims about chart eligibility (SpecChart).                             *)
(***************************************************************************)
Charted == cpc = "chart"

BothPresent(record) ==
    record.winterPercentile # Null /\ record.conditionalGrowthPercentile # Null

\* the positions of the derived records that have both percentiles
EligibleAt == {i \in 1..Len(cdata) : BothPresent(cdata[i])}

\* the k-th of these positions
KthEligible(k) ==
    CHOOSE i \in EligibleAt : Cardinality({j \in EligibleAt : j <= i}) = k

LookedUp == npct # NotLookedUp

NormTable == NORMS_2025(buildKey(nsubject, nseason, ngrade))

HasTable == buildKey(nsubject, nseason, ngrade) # NoKey /\ NormTable # <<>>

\* C14: for a (subject, season, grade) that has a table the percentile does not
\* decrease when the RIT increases, it is 1 for a RIT at or below the first
\* entry and 99 for a RIT at or above the last entry.
C14_LookupMonotoneAndClamped ==
    (LookedUp /\ HasTable) =>
        /\ \A rit2 \in NormRits :
              nrit <= rit2 => npct <= lookupPercentile(nsubject, nseason, ngrade, rit2)
        /\ nrit <= NormTable[1] => npct = 1 * 100
        /\ nrit >= NormTable[99] => npct = 99 * 100

C14_Witness ==
    /\ LookedUp
    /\ nsubject = "Reading" /\ nseason = "Winter" /\ ngrade = "4"
    /\ nrit = 16150
    /\ npct = 4 * 100

\* the 0-based indices i that are the highest with table[i] <= r (none or one)
HighestAtMost(table, r) ==
    {i \in 0..98 : table[i + 1] <= r /\ \A j \in 0..98 : table[j + 1] <= r => j <= i}

\* i + 1, advanced by one when table[i] < r and table[i+1] is at least as close
NearestFrom(table, r, i) ==
    IF i < 98 /\ table[i + 1] < r /\ table[i + 2] - r <= r - table[i + 1]
    THEN i + 2 ELSE i + 1

PriorSupplied ==
    ~dprior.isNull /\ PriorData(dprior, <<drow.studentid, drow.subject>>) # NoPrior

ThePrior == PriorData(dprior, <<drow.studentid, drow.subject>>)

\* the testpercentile of that record, null when there is none
PriorPercentile ==
    IF PriorSupplied THEN safeParseFloat(ThePrior.testpercentile) ELSE Null

\* lookupPercentile(subject, startSeason, start grade, start score)
StartLookup ==
    lookupPercentile(drow.subject, dseason, deriveStartGrade(drow.grade), processed.fallRIT)

SameSchoolYear == {"falltowinter", "falltospring", "wintertospring"}
AcrossSchoolYears == {"falltofall", "wintertowinter", "springtospring"}

StartSEOrZero ==
    IF PriorSupplied /\ safeParseFloat(ThePrior.teststandarderror) # Null
    THEN safeParseFloat(ThePrior.teststandarderror) ELSE 0

\* C17: in a year-over-year period whose norms lookup returns a start-term
\* percentile the low and high bounds are the lookups at the start score minus
\* and plus the start-term SE; with no SE the SE is 0 and low = high = the
\* start-term percentile.
C17_PercentileRangeFromStartSE ==
    (Derived /\ processed.hasGrowthData /\ dperiod \in AcrossSchoolYears
        /\ processed.fallRIT # Null /\ StartLookup # Null) =>
        /\ processed.startTermPercentileLow =
              lookupPercentile(drow.subject, dseason, deriveStartGrade(drow.grade),
                               processed.fallRIT - StartSEOrZero)
        /\ processed.startTermPercentileHigh =
              lookupPercentile(drow.subject, dseason, deriveStartGrade(drow.grade),
                               processed.fallRIT + StartSEOrZero)
        /\ StartSEOrZero = 0 =>
              /\ processed.startTermPercentileLow = processed.startTermPercentile
              /\ processed.startTermPercentileHigh = processed.startTermPercentile

\* processData assigned both bounds of the start-term percentile
RangeSet ==
    /\ Derived
    /\ processed.startTermPercentileLow # Null
    /\ processed.startTermPercentileHigh # Null

\* C30: on every derived record that carries the bounds of the start-term
\* percentile (year-over-year period, norms lookup available, start-term SE
\* above 0) the range is ordered and lies on the percentile scale:
\* 1 <= low <= start-term percentile <= high <= 99.
C30_PercentileRangeOrdered ==
    RangeSet =>
        /\ dperiod \in AcrossSchoolYears
        /\ StartSEOrZero > 0
        /\ 100 <= processed.startTermPercentileLow
        /\ processed.startTermPercentileLow <= processed.startTermPercentile
        /\ processed.startTermPercentile <= processed.startTermPercentileHigh
        /\ processed.startTermPercentileHigh <= 9900

\* a record whose range is strict on both sides
C30_Witness ==
    /\ RangeSet
    /\ dperiod = "wintertowinter"
    /\ processed.fallRIT = 23700
    /\ StartSEOrZero = 300
    /\ processed.startTermPercentileLow < processed.startTermPercentile
    /\ processed.startTermPercentile < processed.startTermPercentileHigh

(***************************************************************************)
(* Claims about report generation (SpecApp).                               *)
(***************************************************************************)
Failed(outcome) == outcome \in {"notok", "reject"}

SomePrimaryFailed == \E i \in 1..Len(outcomes) : Failed(outcomes[i])
SomePriorFailed == \E k \in 1..Len(priorOutcomes) : Failed(priorOutcomes[k])
AllPriorSettled ==
    Len(priorFiles) > 0 /\ \A k \in 1..Len(priorOutcomes) : priorOutcomes[k] # "pending"

\* the rows of the prior-term slices whose fetch succeeded, in the order of
\* the files
PriorRowsLoaded ==
    flat([k \in 1..Len(priorFiles) |->
             IF priorOutcomes[k] = "ok" THEN FileContents(priorFiles[k]) ELSE <<>>],
         Len(priorFiles))

\* per studentid|subject the row of the latest test date, the first one among
\* rows of that date
LatestPerStudentSubject(rows) ==
    {rows[n] : n \in {m \in 1..Len(rows) :
        \A j \in 1..Len(rows) :
            (j # m /\ GroupKey(rows[j]) = GroupKey(rows[m])) =>
                \/ rows[j].teststartdate < rows[m].teststartdate
                \/ rows[j].teststartdate = rows[m].teststartdate /\ m < j}}

\* the lookup the generation has to hand to processData
ExpectedLookup ==
    IF Len(priorFiles) = 0 THEN NoLookup
    ELSE [isNull |-> FALSE, rows |-> LatestPerStudentSubject(PriorRowsLoaded)]

\* the rows of the primary files, in the order of the files
ExpectedRaw == flat([i \in 1..Len(files) |-> FileContents(files[i])], Len(files))

\* C18: a failed prior-term fetch never fails the report: no error is shown,
\* and once every prior-term fetch has settled the generation is complete, the
\* view is 'report' until the user leaves it, and the lookup misses only the
\* rows of the slices whose fetch failed.
C18_PriorFetchFailureSwallowed ==
    SomePriorFailed =>
        /\ gpc # "failed"
        /\ dataError = NoError
        /\ errorsShown = 0
        /\ AllPriorSettled =>
              /\ gpc \in {"done", "idle"}
              /\ gpc = "done" => view = "report"
              /\ ~dataLoading
              /\ priorLookup = ExpectedLookup
              /\ reportData = reportDataOf(ExpectedRaw, selection, ExpectedLookup)

C18_Witness ==
    /\ gpc = "done"
    /\ view = "report"
    /\ priorOutcomes = <<"reject", "ok">>
    /\ Cardinality(priorLookup.rows) = 2
    /\ dataError = NoError
    /\ Len(reportData) = 3

\* C19: when a primary fetch fails the generation ends with one error shown,
\* the view on 'selection', reportData and reportFilters as before the
\* attempt, dataLoading false, and no request beyond the one per primary file.
C19_PrimaryFetchFailureIsOneError ==
    SomePrimaryFailed =>
        /\ gpc = "failed"
        /\ errorsShown = 1
        /\ dataError # NoError
        /\ view = "selection"
        /\ reportData = atStart.reportData
        /\ reportFilters = atStart.reportFilters
        /\ ~dataLoading
        /\ requests = Len(files)
        /\ priorFiles = <<>>

C19_Witness ==
    /\ gpc = "failed"
    /\ gens = 2
    /\ Len(files) = 2
    /\ outcomes = <<"ok", "notok">>
    /\ Len(atStart.reportData) = 3
    /\ reportData = atStart.reportData
    /\ dataError = <<"Failed to load data", "HTTP 404 loading", "Alpha Miami">>

\* C20: nothing is processed before every primary fetch has resolved, and the
\* merged rows, the lookup and the report depend on the files only, not on
\* the order in which the fetches completed.
C20_MergeIndependentOfCompletionOrder ==
    /\ gpc = "primary" =>
          /\ rawData = <<>>
          /\ priorFiles = <<>>
          /\ reportData = atStart.reportData
    /\ gpc \in {"prior", "done"} =>
          /\ \A i \in 1..Len(outcomes) : outcomes[i] = "ok"
          /\ rawData = ExpectedRaw
    /\ gpc = "prior" =>
          /\ priorLookup = NoLookup
          /\ reportData = atStart.reportData
    /\ gpc = "done" =>
          /\ priorLookup = ExpectedLookup
          /\ reportData = reportDataOf(ExpectedRaw, selection, ExpectedLookup)
          /\ reportFilters = reportFiltersOf(ExpectedRaw, selection)

C20_Witness ==
    /\ gpc = "done"
    /\ settled = <<2, 1>>
    /\ priorSettled = <<2, 1>>
    /\ priorOutcomes = <<"ok", "ok">>
    /\ Len(rawData) = 3
    /\ rawData[1].studentid = "001-0408"
    /\ \E r \in priorLookup.rows : r.studentid = "001-0408" /\ r.testpercentile = 9700

(***************************************************************************)
(* Claims about the quadrant of a student (SpecQuadrant).                  *)
(***************************************************************************)
QuadrantKnown == quadrant \notin {NoQuadrant, "idle"}

Quadrants == {"highHigh", "lowHigh", "lowLow", "highLow"}

\* C23: getQuadrant puts every pair (achievement percentile, growth
\* percentile) in exactly one of the four quadrants, both thresholds being 50
\* and the value 50 counting as high: highHigh when achievement >= 50 and
\* growth >= 50, lowHigh when achievement < 50 and growth >= 50, lowLow when
\* both are below 50, highLow when achievement >= 50 and growth < 50.
C23_QuadrantThresholdsAtFifty ==
    QuadrantKnown =>
        /\ quadrant \in Quadrants
        /\ (quadrant = "highHigh") <=> (qachievement >= 5000 /\ qgrowth >= 5000)
        /\ (quadrant = "lowHigh") <=> (qachievement < 5000 /\ qgrowth >= 5000)
        /\ (quadrant = "lowLow") <=> (qachievement < 5000 /\ qgrowth < 5000)
        /\ (quadrant = "highLow") <=> (qachievement >= 5000 /\ qgrowth < 5000)

\* a student exactly on the achievement boundary with low growth
C23_Witness ==
    /\ QuadrantKnown
    /\ qachievement = 5000
    /\ qgrowth = 4900
    /\ quadrant = "highLow"

(***************************************************************************)
(* Claims about the start grade (SpecGrades).                              *)
(***************************************************************************)
StartGradeDerived == gstart \notin {NoGrade, "idle"}

\* the grade label one below a numeric grade: kindergarten lies below grade 1
GradeBelow(grade) ==
    IF grade = "1" THEN "K" ELSE GradeString(parseIntGrade(grade) - 1)

NumericGrades == {"1", "2", "3", "4", "5", "6", "7", "8", "9", "10", "11", "12"}

\* C24: deriveStartGrade returns the grade one below the current grade for a
\* numeric grade ('5' -> '4', '1' -> 'K') and returns 'K' and every
\* non-numeric grade unchanged; for a current grade in {K, 1..12} the result
\* is again a grade label in {K, 1..12}.
C24_StartGradeOneBelow ==
    StartGradeDerived =>
        /\ ggrade \in NumericGrades => gstart = GradeBelow(ggrade)
        /\ ggrade \notin NumericGrades => gstart = ggrade
        /\ ggrade \in NormGrades => gstart \in NormGrades

\* what the code does for every grade but '1'
C24_StartGradeOneBelowFromGradeTwo ==
    (StartGradeDerived /\ ggrade # "1") => C24_StartGradeOneBelow

\* the start grade of a first-grader is '0', a grade the norms tables lack
C24_FirstGraderGetsGradeZero ==
    (StartGradeDerived /\ ggrade = "1") => (gstart = "0" /\ gpct = Null)

(***************************************************************************)
(* Claims about the grouping of the table rows (SpecGroups).               *)
(***************************************************************************)
Grouped == groups \notin {NoGroups, [idle |-> <<>>]}

\* the record's course when it has one, its subject otherwise
CourseOrSubject(record) == IF record.course # "" THEN record.course ELSE record.subject

\* the positions of the input whose record belongs under a key
PositionsOf(key) == {i \in 1..Len(grecords) : CourseOrSubject(grecords[i]) = key}

RECURSIVE SumOfSizes(_)
SumOfSizes(keys) ==
    IF keys = {} THEN 0
    ELSE LET k == CHOOSE x \in keys : TRUE
         IN  Len(groups[k]) + SumOfSizes(keys \ {k})

\* C26: groupBySubject partitions its input: the keys are the course-or-subject
\* values of the records, every record is in the group of its own key and in
\* no other group, the group sizes sum to the input length, and each group
\* holds its records in their input order.
C26_GroupBySubjectPartitions ==
    Grouped =>
        /\ DOMAIN groups = {CourseOrSubject(grecords[i]) : i \in 1..Len(grecords)}
        /\ \A key \in DOMAIN groups :
              groups[key] = SelectSeq(grecords, LAMBDA r : CourseOrSubject(r) = key)
        /\ \A key \in DOMAIN groups :
              Len(groups[key]) = Cardinality(PositionsOf(key))
        /\ SumOfSizes(DOMAIN groups) = Len(grecords)

\* a record with a course is grouped under it, one without under its subject,
\* and a group of two keeps the input order
C26_Witness ==
    /\ Grouped
    /\ Len(grecords) = 3
    /\ grecords[1].course = "Math 6+" /\ grecords[1].subject = "Math K-12"
    /\ grecords[2].course = "" /\ grecords[2].subject = "Reading"
    /\ grecords[3].course = "Reading" /\ grecords[3].studentid # grecords[2].studentid
    /\ groups["Reading"] = <<grecords[2], grecords[3]>>
    /\ groups["Math 6+"] = <<grecords[1]>>

\* the rows of the records of the report, in the order of reportData
ReportRows == gradeFilter(rawData, selection.grades)

\* the records the report view shows
Shown == filteredReportData(reportData, ReportRows, reportFilters)

\* a generation has just succeeded: the report view is up, no filter was toggled
JustGenerated == gpc = "done" /\ view = "report"

EmptyFieldAt(i) ==
    \/ ReportRows[i].subject = ""
    \/ ReportRows[i].studentgender = ""
    \/ ReportRows[i].studentethnicgroup = ""

\* C27: right after a successful generation, before any report filter is
\* toggled, the report shows every processed record (filteredReportData equals
\* reportData), the records with an empty gender or ethnicity included.
C27_FreshReportShowsEveryRecord ==
    JustGenerated => Shown = reportData

\* the records of the report whose row has no empty filtered field
RECURSIVE WithoutEmptyFields(_)
WithoutEmptyFields(n) ==
    IF n = 0 THEN <<>>
    ELSE IF EmptyFieldAt(n) THEN WithoutEmptyFields(n - 1)
         ELSE Append(WithoutEmptyFields(n - 1), reportData[n])

\* what the code does: the fresh report shows the records whose subject,
\* gender and ethnicity are all non-empty, and hides the others
C27_FreshReportHidesEmptyFields ==
    JustGenerated =>
        /\ Len(ReportRows) = Len(reportData)
        /\ Shown = WithoutEmptyFields(Len(reportData))

\* the rows of all the files of a list, in the order of the list
RECURSIVE RowsOfFiles(_, _)
RowsOfFiles(list, n) ==
    IF n = 0 THEN <<>> ELSE RowsOfFiles(list, n - 1) \o FileContents(list[n])

\* the lookup a request ends with when its prior-term fetches end as o says
LookupAfter(priorList, o) ==
    IF Len(priorList) = 0 THEN NoLookup
    ELSE priorLookupOf([k \in 1..Len(priorList) |-> priorResponse(o[k], priorList[k])],
                       <<>>)

\* the complete outputs of one request: all the rows of all its slices
CompleteReportsOf(meta, sel) ==
    LET list == filesToLoad(sel, meta)
        priorList == priorFilesOf(list, meta, sel)
    IN  {reportDataOf(RowsOfFiles(list, Len(list)), sel, LookupAfter(priorList, o)) :
            o \in [1..Len(priorList) -> {"ok", "notok"}]}

CompleteReports ==
    [meta \in MetadataSet |-> UNION {CompleteReportsOf(meta, sel) : sel \in Selections}]

\* C25: reportData is only ever replaced wholesale: in every reachable state it
\* is the initial empty list or the complete processed output of one single
\* completed request (all the rows of all its slices), never a mixture of two
\* requests nor the output of a part of the slices; while a request is in
\* flight or has failed it still is what it was when the request started.
C25_ReportDataReplacedWholesale ==
    /\ reportData = <<>> \/ reportData \in CompleteReports[metadata]
    /\ gpc \in {"primary", "prior", "failed"} => reportData = atStart.reportData
    /\ gpc = "done" =>
          reportData \in CompleteReportsOf(metadata, selection)

\* a second request is half-way (one of its two slices has arrived) and the
\* report still is the complete output of the first request
C25_Witness ==
    /\ gpc = "primary"
    /\ gens = 2
    /\ Len(files) = 2
    /\ Len(settled) = 1
    /\ primary[settled[1]].state = "fulfilled"
    /\ selection.grades = <<"4", "5">>
    /\ Len(reportData) = 3


\* ---------------------------------------------------------------------------
\* Claims checked under SpecSelect
\* ---------------------------------------------------------------------------

\* a generation has just requested its files
FilesRequested == gpc = "primary"

SlicesOfIndex == {metadata[i] : i \in 1..Len(metadata)}

\* the slices the selection names, case by case
SlicesNamed(sel) ==
    LET inTerm == {s \in SlicesOfIndex : s.term = sel.termname}
    IN  IF sel.districtname # AllOption /\ sel.schoolname # AllOption
        THEN {Slice(sel.termname, sel.districtname, sel.schoolname)}
        ELSE IF sel.districtname # AllOption
        THEN {s \in inTerm : s.district = sel.districtname}
        ELSE IF sel.schoolname # AllOption
        THEN {s \in inTerm : s.school = sel.schoolname}
        ELSE inTerm

\* C21: the files a generation requests are exactly the slices its selection
\* names (the selected school of the selected district; every school of the
\* district for 'All Schools'; the selected school in each district holding it
\* for 'All Districts'; every slice of the term when both are 'all'), each
\* once, each an entry of the index; with a specific school every requested
\* path is the file of a slice of that school only
C21_FilesLoadedMatchSelection ==
    FilesRequested =>
        LET asked == {files[i] : i \in 1..Len(files)}
        IN  /\ asked = SlicesNamed(selection)
            /\ Cardinality(asked) = Len(files)
            /\ asked \subseteq SlicesOfIndex
            /\ selection.schoolname # AllOption =>
                  \A f \in asked : \A s \in SlicesOfIndex :
                      pathOf(s) = pathOf(f) => s.school = selection.schoolname

\* 'All Districts' with a school two districts hold: that school's file of
\* each district is requested, and the index has other schools in the term
C21_Witness ==
    /\ FilesRequested
    /\ selection.districtname = AllOption
    /\ selection.schoolname = "Alpha Austin"
    /\ Len(files) = 2
    /\ \E s \in SlicesOfIndex : s.term = selection.termname /\ s.school # "Alpha Austin"


\* the selection names nothing below an empty select
Hierarchical(sel) ==
    /\ sel.schoolname # "" => sel.districtname # ""
    /\ sel.districtname # "" => sel.termname # NoTermName
    /\ (sel.level # "" \/ sel.grades # <<>> \/ sel.growthPeriod # "")
          => sel.schoolname # ""

BelowSchoolCleared(sel) == sel.level = "" /\ sel.grades = <<>> /\ sel.growthPeriod = ""

\* a step that changes termname, districtname or schoolname leaves everything
\* downstream of the changed select empty
UpstreamChangeClears ==
    /\ selection'.termname # selection.termname =>
          /\ selection'.districtname = "" /\ selection'.schoolname = ""
          /\ BelowSchoolCleared(selection')
    /\ selection'.districtname # selection.districtname =>
          selection'.schoolname = "" /\ BelowSchoolCleared(selection')
    /\ selection'.schoolname # selection.schoolname => BelowSchoolCleared(selection')

\* C29: in the selection view the selection is always hierarchical (a school
\* only with a district, a district only with a term, a level, grades or a
\* growth period only with a school), and every change of term, district or
\* school empties every select below the changed one
C29_SelectionStaysHierarchical ==
    /\ [](view = "selection" => Hierarchical(selection))
    /\ [][view = "selection" => UpstreamChangeClears]_vars

\* a complete selection, reached through the selects
C29_Witness ==
    /\ view = "selection"
    /\ gpc = "idle"
    /\ selection.termname = SelectedTerm
    /\ selection.districtname = AllOption
    /\ selection.schoolname = "Alpha Austin"
    /\ selection.level = "L2"
    /\ selection.grades = <<"4", "5">>
    /\ selection.growthPeriod = "wintertowinter"


\* ---------------------------------------------------------------------------
\* Claims checked under SpecSession
\* ---------------------------------------------------------------------------

\* a handleGenerateReport is between its start and its finally block
InFlight == dataLoading

\* C28: a generation starts only while none is in flight, the one handler
\* that runs is the one in flight, no step changes the selection while a
\* generation is in flight or the report view is displayed, and whenever the
\* report view is displayed the files are those of the selection held in
\* state and reportData is the complete result of a generation for it
C28_ReportIsOfCurrentSelection ==
    /\ [][gens' # gens => (~InFlight /\ InFlight')]_vars
    /\ [](InFlight <=> gpc \in {"primary", "prior"})
    /\ [][(InFlight \/ view = "report") => selection' = selection]_vars
    /\ [](view = "report" =>
            /\ files = filesToLoad(selection, metadata)
            /\ reportData \in CompleteReportsOf(metadata, selection))

\* the report of a second generation, made after the selects were changed,
\* differs from the first report
C28_Witness ==
    /\ view = "report"
    /\ gens = 2
    /\ atStart.reportData # <<>>
    /\ atStart.reportData # reportData


\* ---------------------------------------------------------------------------
\* Claims checked under SpecOptions
\* ---------------------------------------------------------------------------

\* the growth-period select shows its options
Offered == ooffered # NotOffered

\* the periods that end in a season
PeriodsEndingIn(season) ==
    CASE season = "Winter" -> {"falltowinter", "wintertowinter"}
      [] season = "Spring" -> {"falltospring", "wintertospring", "springtospring"}
      [] season = "Fall" -> {"falltofall"}
      [] OTHER -> {}

\* C22: the growth periods offered for a selected term all end in the term's
\* season (Winter: Fall to Winter, Winter to Winter; Spring: Fall to Spring,
\* Winter to Spring, Spring to Spring; Fall: Fall to Fall)
C22_OfferedPeriodsEndInTermSeason ==
    Offered => ooffered \subseteq PeriodsEndingIn(oterm.word)

\* the schools the school select stands for
SchoolsSelected ==
    IF oschool = AllOption THEN {orows[i].schoolname : i \in 1..Len(orows)} ELSE {oschool}

\* C22 (what the code does): the periods offered are exactly those for which
\* a deduplicated row of a selected school holds a conditional growth
\* percentile, whatever the season of the term
C22_OfferedPeriodsAreThoseWithData ==
    Offered =>
        \A p \in GrowthPeriods :
            p \in ooffered <=>
                \E school \in SchoolsSelected :
                    LET kept == deduplicateTermData(SchoolRowsOf(orows, school))
                    IN  \E i \in 1..Len(kept) :
                            kept[i].growth[p].conditionalgrowthpercentile # EmptyStr

\* a row holds a percentile only for periods that end in the season of its term
SeasonalRows ==
    \A i \in 1..Len(orows) : \A p \in GrowthPeriods :
        orows[i].growth[p].conditionalgrowthpercentile # EmptyStr
            => p \in PeriodsEndingIn(oterm.word)

\* C22 (on seasonal data): when the rows of the term hold percentiles only for
\* periods ending in its season, so do the options
C22_SeasonalRowsGiveSeasonalOptions ==
    (Offered /\ SeasonalRows) => ooffered \subseteq PeriodsEndingIn(oterm.word)

\* a Winter term whose options include Fall to Winter
C22_WinterOffersFallToWinter ==
    Offered /\ oterm.word = "Winter" /\ "falltowinter" \in ooffered /\ SeasonalRows

====
